---- MODULE Spec2Model ----
(***************************************************************************)
(* Model of the GraphQL introspection MCP server:                          *)
(*   - GraphQLIntrospectionService (src/src/graphql-service.ts): the       *)
(*     time-expiring cache, the introspection fetch and the six            *)
(*     formatting operations;                                              *)
(*   - the CallToolRequestSchema handler (src/unnamed/part_000): the tool  *)
(*     boundary that turns every result or error into a response.          *)
(*                                                                         *)
(* Strings are sequences of character codes (ASCII), so that template      *)
(* strings, concatenation, base64 and substring tests are computed and not *)
(* assumed.  The JavaScript values undefined and null are the two tuples   *)
(* Undefined and Null, which are no string.                                *)
(***************************************************************************)
EXTENDS Integers, Sequences, FiniteSets, TLC

\* ------------------------------------------------------------------------
\* Bounds of the model
\* ------------------------------------------------------------------------
\* number of tool calls the host keeps in flight at once
MaxCalls == 2
\* the clock runs through this many cache durations ...
MaxEpochs == 1
\* ... and shows this many milliseconds after each of them
MaxOvertime == 0
\* number of successful fetches recorded in the history
MaxFetches == 2
\* number of wrappers (NON_NULL, LIST) nested around a named type
MaxDepth == 3

\* ------------------------------------------------------------------------
\* JavaScript values
\* ------------------------------------------------------------------------
Undefined == <<-1>>
Null == <<-2>>

\* JavaScript truthiness of a string-or-undefined-or-null value
Truthy(v) == v # Undefined /\ v # Null /\ v # <<>>

\* a || b
JsOr(a, b) == IF Truthy(a) THEN a ELSE b

\* a ?? b
JsNullish(a, b) == IF a = Undefined \/ a = Null THEN b ELSE a

\* String.prototype.includes
Includes(s, sub) ==
  \E i \in 0..(Len(s) - Len(sub)) : SubSeq(s, i + 1, i + Len(sub)) = sub

\* String.prototype.startsWith
StartsWith(s, prefix) ==
  Len(s) >= Len(prefix) /\ SubSeq(s, 1, Len(prefix)) = prefix

\* String.prototype.toLowerCase on ASCII
ToLowerCase(s) == [i \in 1..Len(s) |-> IF s[i] >= 65 /\ s[i] <= 90 THEN s[i] + 32 ELSE s[i]]

\* `${v}` for a string, undefined or null
TemplateValue(v) ==
  IF v = Undefined THEN <<117, 110, 100, 101, 102, 105, 110, 101, 100>>
  ELSE IF v = Null THEN <<110, 117, 108, 108>>
  ELSE v

RECURSIVE NumberToString(_)
\* `${n}` for a non-negative integer
NumberToString(n) ==
  IF n < 10 THEN <<48 + n>> ELSE NumberToString(n \div 10) \o <<48 + (n % 10)>>

\* ------------------------------------------------------------------------
\* String literals of the source
\* ------------------------------------------------------------------------
STR_no_auth == <<110, 111, 45, 97, 117, 116, 104>>  \* 'no-auth'
STR_colon == <<58>>  \* ':'
STR_Bearer == <<66, 101, 97, 114, 101, 114, 32>>  \* 'Bearer '
STR_Basic == <<66, 97, 115, 105, 99, 32>>  \* 'Basic '
STR_HTTP == <<72, 84, 84, 80, 32>>  \* 'HTTP '
STR_colon_space == <<58, 32>>  \* ': '
STR_GraphQL_errors == <<71, 114, 97, 112, 104, 81, 76, 32, 101, 114, 114, 111, 114, 115, 58, 32>>  \* 'GraphQL errors: '
STR_Failed_to_fetch == <<70, 97, 105, 108, 101, 100, 32, 116, 111, 32, 102, 101, 116, 99, 104, 32, 71, 114, 97, 112, 104, 81, 76, 32, 115, 99, 104, 101, 109, 97, 58, 32>>  \* 'Failed to fetch GraphQL schema: '
STR_Failed_to_build == <<70, 97, 105, 108, 101, 100, 32, 116, 111, 32, 98, 117, 105, 108, 100, 32, 115, 99, 104, 101, 109, 97, 58, 32>>  \* 'Failed to build schema: '
STR_Unknown_error == <<85, 110, 107, 110, 111, 119, 110, 32, 101, 114, 114, 111, 114>>  \* 'Unknown error'
STR_Unknown_tool == <<85, 110, 107, 110, 111, 119, 110, 32, 116, 111, 111, 108, 58, 32>>  \* 'Unknown tool: '

TOOL_get_graphql_schema == <<103, 101, 116, 95, 103, 114, 97, 112, 104, 113, 108, 95, 115, 99, 104, 101, 109, 97>>  \* 'get_graphql_schema'
TOOL_filter_queries == <<102, 105, 108, 116, 101, 114, 95, 113, 117, 101, 114, 105, 101, 115>>  \* 'filter_queries'
TOOL_filter_mutations == <<102, 105, 108, 116, 101, 114, 95, 109, 117, 116, 97, 116, 105, 111, 110, 115>>  \* 'filter_mutations'
TOOL_filter_types == <<102, 105, 108, 116, 101, 114, 95, 116, 121, 112, 101, 115>>  \* 'filter_types'
TOOL_get_type_details == <<103, 101, 116, 95, 116, 121, 112, 101, 95, 100, 101, 116, 97, 105, 108, 115>>  \* 'get_type_details'
TOOL_get_field_details == <<103, 101, 116, 95, 102, 105, 101, 108, 100, 95, 100, 101, 116, 97, 105, 108, 115>>  \* 'get_field_details'
TOOL_unknown == <<110, 111, 95, 115, 117, 99, 104, 95, 116, 111, 111, 108>>  \* 'no_such_tool'
KIND_OBJECT == <<79, 66, 74, 69, 67, 84>>  \* 'OBJECT'
KIND_SCALAR == <<83, 67, 65, 76, 65, 82>>  \* 'SCALAR'
KIND_ENUM == <<69, 78, 85, 77>>  \* 'ENUM'
KIND_NON_NULL == <<78, 79, 78, 95, 78, 85, 76, 76>>  \* 'NON_NULL'
KIND_LIST == <<76, 73, 83, 84>>  \* 'LIST'
STR_Type_q == <<84, 121, 112, 101, 32, 34>>  \* 'Type "'
STR_q_not_found == <<34, 32, 110, 111, 116, 32, 102, 111, 117, 110, 100>>  \* '" not found'
STR_No == <<78, 111, 32>>  \* 'No '
STR_type_available == <<32, 116, 121, 112, 101, 32, 97, 118, 97, 105, 108, 97, 98, 108, 101>>  \* ' type available'
STR_type_has_no_fields == <<32, 116, 121, 112, 101, 32, 104, 97, 115, 32, 110, 111, 32, 102, 105, 101, 108, 100, 115>>  \* ' type has no fields'
STR_Field_q == <<70, 105, 101, 108, 100, 32, 34>>  \* 'Field "'
STR_q_not_found_in == <<34, 32, 110, 111, 116, 32, 102, 111, 117, 110, 100, 32, 105, 110, 32>>  \* '" not found in '
STR_type == <<32, 116, 121, 112, 101>>  \* ' type'
STR_TypeError_undefined_schema == <<67, 97, 110, 110, 111, 116, 32, 114, 101, 97, 100, 32, 112, 114, 111, 112, 101, 114, 116, 105, 101, 115, 32, 111, 102, 32, 117, 110, 100, 101, 102, 105, 110, 101, 100, 32, 40, 114, 101, 97, 100, 105, 110, 103, 32, 39, 95, 95, 115, 99, 104, 101, 109, 97, 39, 41>>  \* "Cannot read properties of undefined (reading '__schema')"
STR_TypeError_undefined_endpoint == <<67, 97, 110, 110, 111, 116, 32, 114, 101, 97, 100, 32, 112, 114, 111, 112, 101, 114, 116, 105, 101, 115, 32, 111, 102, 32, 117, 110, 100, 101, 102, 105, 110, 101, 100, 32, 40, 114, 101, 97, 100, 105, 110, 103, 32, 39, 101, 110, 100, 112, 111, 105, 110, 116, 39, 41>>  \* "Cannot read properties of undefined (reading 'endpoint')"
STR_invalid_json == <<105, 110, 118, 97, 108, 105, 100, 32, 106, 115, 111, 110, 32, 114, 101, 115, 112, 111, 110, 115, 101, 32, 98, 111, 100, 121>>  \* 'invalid json response body'
STR_ECONNREFUSED == <<99, 111, 110, 110, 101, 99, 116, 32, 69, 67, 79, 78, 78, 82, 69, 70, 85, 83, 69, 68>>  \* 'connect ECONNREFUSED'
STR_introspection_invalid == <<73, 110, 118, 97, 108, 105, 100, 32, 111, 114, 32, 105, 110, 99, 111, 109, 112, 108, 101, 116, 101, 32, 105, 110, 116, 114, 111, 115, 112, 101, 99, 116, 105, 111, 110, 32, 114, 101, 115, 117, 108, 116>>  \* 'Invalid or incomplete introspection result'
STR_empty_array == <<91, 93>>  \* '[]'
STR_errors_json == <<91, 123, 34, 109, 101, 115, 115, 97, 103, 101, 34, 58, 34, 120, 34, 125, 93>>  \* '[{"message":"x"}]'
N_Query == <<81, 117, 101, 114, 121>>  \* 'Query'
N_Mutation == <<77, 117, 116, 97, 116, 105, 111, 110>>  \* 'Mutation'
N_Missing == <<77, 105, 115, 115, 105, 110, 103>>  \* 'Missing'
N_Int == <<73, 110, 116>>  \* 'Int'
N___Type == <<95, 95, 84, 121, 112, 101>>  \* '__Type'
N_Role == <<82, 111, 108, 101>>  \* 'Role'
N_user == <<117, 115, 101, 114>>  \* 'user'
N_Users == <<85, 115, 101, 114, 115>>  \* 'Users'
N_addUser == <<97, 100, 100, 85, 115, 101, 114>>  \* 'addUser'
N_id == <<105, 100>>  \* 'id'
D_find_a_USER == <<102, 105, 110, 100, 32, 97, 32, 85, 83, 69, 82>>  \* 'find a USER'
E_a == <<104, 116, 116, 112, 58, 47, 47, 97>>  \* 'http://a'
U_u == <<117>>  \* 'u'
P_p == <<112>>  \* 'p'
P_q == <<113>>  \* 'q'
T_t == <<116>>  \* 't'
ST_Not_Found == <<78, 111, 116, 32, 70, 111, 117, 110, 100>>  \* 'Not Found'
ST_OK == <<79, 75>>  \* 'OK'
S_use == <<117, 115, 101>>  \* 'use'
S_USER == <<85, 83, 69, 82>>  \* 'USER'
S_find == <<102, 105, 110, 100>>  \* 'find'
S_zz == <<122, 122>>  \* 'zz'
N_int == <<105, 110, 116>>  \* 'int'
N_User == <<85, 115, 101, 114>>  \* 'User'
KIND_INTERFACE == <<73, 78, 84, 69, 82, 70, 65, 67, 69>>  \* 'INTERFACE'
STR_dunder == <<95, 95>>  \* '__'
STR_query == <<113, 117, 101, 114, 121>>  \* 'query'
STR_mutation == <<109, 117, 116, 97, 116, 105, 111, 110>>  \* 'mutation'

\* ------------------------------------------------------------------------
\* Buffer.from(s).toString('base64')
\* ------------------------------------------------------------------------
\* the base64 alphabet: the character code of a 6-bit value
Base64Char(v) ==
  IF v < 26 THEN 65 + v
  ELSE IF v < 52 THEN 97 + (v - 26)
  ELSE IF v < 62 THEN 48 + (v - 52)
  ELSE IF v = 62 THEN 43 ELSE 47

RECURSIVE Base64(_)
Base64(b) ==
  IF Len(b) = 0 THEN <<>>
  ELSE IF Len(b) = 1 THEN
    << Base64Char(b[1] \div 4), Base64Char((b[1] % 4) * 16), 61, 61 >>
  ELSE IF Len(b) = 2 THEN
    << Base64Char(b[1] \div 4), Base64Char((b[1] % 4) * 16 + b[2] \div 16),
       Base64Char((b[2] % 16) * 4), 61 >>
  ELSE
    << Base64Char(b[1] \div 4), Base64Char((b[1] % 4) * 16 + b[2] \div 16),
       Base64Char((b[2] % 16) * 4 + b[3] \div 64), Base64Char(b[3] % 64) >>
    \o Base64(SubSeq(b, 4, Len(b)))

\* ------------------------------------------------------------------------
\* GraphQLIntrospectionService: constants
\* ------------------------------------------------------------------------
CACHE_DURATION == 5 * 60 * 1000

\* 'http://localhost:5555/graphql' (process.env.BASE_URL is not set)
DEFAULT_ENDPOINT == <<104, 116, 116, 112, 58, 47, 47, 108, 111, 99, 97, 108, 104, 111, 115, 116, 58, 53, 53, 53, 53, 47, 103, 114, 97, 112, 104, 113, 108>>

\* ------------------------------------------------------------------------
\* GraphQLIntrospectionService: cache key, cache validity, request headers
\* ------------------------------------------------------------------------
\* a variant that keys the cache by the password too
getCacheKey_WithPassword(endpoint, auth) ==
  endpoint \o STR_colon \o JsOr(auth.username, JsOr(auth.bearer_token, STR_no_auth))
           \o STR_colon \o JsOr(auth.password, <<>>)

getCacheKey(endpoint, auth) ==
  LET authKey == JsOr(auth.username, JsOr(auth.bearer_token, STR_no_auth))
  IN  endpoint \o STR_colon \o authKey

\* a variant that still accepts an entry whose age equals the duration
isValidCache_Inclusive(entry, dateNow) ==
  dateNow - entry.timestamp <= CACHE_DURATION

isValidCache(entry, dateNow) ==
  dateNow - entry.timestamp < CACHE_DURATION

\* a variant that prefers the basic credentials to the bearer token
AuthorizationHeader_BasicFirst(auth) ==
  IF Truthy(auth.username) /\ Truthy(auth.password)
    THEN STR_Basic \o Base64(auth.username \o STR_colon \o auth.password)
  ELSE IF Truthy(auth.bearer_token) THEN STR_Bearer \o auth.bearer_token
  ELSE Undefined

\* headers['Authorization'], Undefined when the header is not set
AuthorizationHeader(auth) ==
  IF Truthy(auth.bearer_token) THEN STR_Bearer \o auth.bearer_token
  ELSE IF Truthy(auth.username) /\ Truthy(auth.password)
    THEN STR_Basic \o Base64(auth.username \o STR_colon \o auth.password)
  ELSE Undefined

\* ------------------------------------------------------------------------
\* Results of the service methods: a returned value or a thrown error
\* ------------------------------------------------------------------------
\* return value
Return(v) == [threw |-> FALSE, value |-> v]

\* throw new Error(message)
Throw(m) == [threw |-> TRUE, isError |-> TRUE, message |-> m]

\* an optional list of the formatted output: null, or the list
NullList == [isNull |-> TRUE, items |-> <<>>]
ListOf(items) == [isNull |-> FALSE, items |-> items]

\* a variant that compares the names without case
FindType_IgnoringCase(types, name) ==
  IF \E i \in 1..Len(types) : ToLowerCase(types[i].name) = ToLowerCase(name)
    THEN CHOOSE i \in 1..Len(types) :
           /\ ToLowerCase(types[i].name) = ToLowerCase(name)
           /\ \A j \in 1..(i - 1) : ToLowerCase(types[j].name) # ToLowerCase(name)
    ELSE 0

\* Array.prototype.find on the declared types: the index of the first type
\* of that name, 0 when there is none
FindType(types, name) ==
  IF \E i \in 1..Len(types) : types[i].name = name
    THEN CHOOSE i \in 1..Len(types) :
           /\ types[i].name = name
           /\ \A j \in 1..(i - 1) : types[j].name # name
    ELSE 0

\* Array.prototype.find on a field list
FindField(fields, name) ==
  IF \E i \in 1..Len(fields) : fields[i].name = name
    THEN CHOOSE i \in 1..Len(fields) :
           /\ fields[i].name = name
           /\ \A j \in 1..(i - 1) : fields[j].name # name
    ELSE 0

\* a variant that compares the name only
MatchesSearch_NameOnly(item, search) ==
  Includes(ToLowerCase(item.name), ToLowerCase(search))

\* the search predicate of filterQueries, filterMutations and filterTypes
MatchesSearch(item, search) ==
  LET searchLower == ToLowerCase(search)
  IN  \/ Includes(ToLowerCase(item.name), searchLower)
      \/ /\ Truthy(item.description)
         /\ Includes(ToLowerCase(item.description), searchLower)

\* ------------------------------------------------------------------------
\* Formatting helpers.  A type reference is the chain of its nodes from the
\* outermost wrapper to the innermost node (each node has at most one
\* ofType); the empty chain is the null reference.  A formatted reference is
\* the chain of its formatted nodes, each the of_type of its predecessor.
\* ------------------------------------------------------------------------
RECURSIVE formatType_Flattening(_)
\* a variant that drops the NON_NULL wrapper inside a LIST
formatType_Flattening(type) ==
  IF type = <<>> THEN <<>>
  ELSE IF Head(type).kind = KIND_NON_NULL
    THEN << [kind |-> KIND_NON_NULL, is_required |-> TRUE] >>
         \o formatType_Flattening(Tail(type))
  ELSE IF Head(type).kind = KIND_LIST
    THEN << [kind |-> KIND_LIST, is_list |-> TRUE] >>
         \o formatType_Flattening(IF Len(type) > 2 /\ type[2].kind = KIND_NON_NULL
                                    THEN Tail(Tail(type)) ELSE Tail(type))
  ELSE << [kind |-> Head(type).kind, name |-> Head(type).name,
           description |-> Head(type).description] >>

RECURSIVE formatType(_)
formatType(type) ==
  IF type = <<>> THEN <<>>
  ELSE IF Head(type).kind = KIND_NON_NULL
    THEN << [kind |-> KIND_NON_NULL, is_required |-> TRUE] >> \o formatType(Tail(type))
  ELSE IF Head(type).kind = KIND_LIST
    THEN << [kind |-> KIND_LIST, is_list |-> TRUE] >> \o formatType(Tail(type))
  ELSE << [kind |-> Head(type).kind, name |-> Head(type).name,
           description |-> Head(type).description] >>

\* args is the optional list of the field: if (!args) return []
formatArguments(args) ==
  IF args.isNull THEN <<>>
  ELSE [i \in 1..Len(args.items) |->
          [name |-> args.items[i].name, description |-> args.items[i].description,
           type |-> formatType(args.items[i].type),
           default_value |-> args.items[i].defaultValue]]

formatTypes(types) ==
  LET Visible(t) == ~StartsWith(t.name, STR_dunder)
      kept == SelectSeq(types, Visible)
  IN  [i \in 1..Len(kept) |->
         [name |-> kept[i].name, kind |-> kept[i].kind,
          description |-> kept[i].description]]

formatFields(typeName, types) ==
  IF ~Truthy(typeName) THEN <<>>
  ELSE LET i == FindType(types, typeName)
       IN  IF i = 0 \/ ~types[i].hasFields THEN <<>>
           ELSE [j \in 1..Len(types[i].fields) |->
                  LET field == types[i].fields[j]
                  IN  [name |-> field.name, description |-> field.description,
                       arguments |-> formatArguments(field.args),
                       return_type |-> formatType(field.type),
                       deprecated |-> field.isDeprecated,
                       deprecation_reason |-> field.deprecationReason]]

formatTypeFields(fields) ==
  [i \in 1..Len(fields) |->
     [name |-> fields[i].name, description |-> fields[i].description,
      type |-> formatType(fields[i].type), deprecated |-> fields[i].isDeprecated,
      deprecation_reason |-> fields[i].deprecationReason]]

formatEnumValues(values) ==
  [i \in 1..Len(values) |->
     [name |-> values[i].name, description |-> values[i].description,
      deprecated |-> values[i].isDeprecated,
      deprecation_reason |-> values[i].deprecationReason]]

formatInputFields(fields) ==
  [i \in 1..Len(fields) |->
     [name |-> fields[i].name, description |-> fields[i].description,
      type |-> formatType(fields[i].type), default_value |-> fields[i].defaultValue]]

\* a variant whose detailed item leaves out the deprecation
FormatOperationField_DetailedDropsDeprecation(field, detailed) ==
  IF detailed
    THEN [name |-> field.name, description |-> field.description,
          arguments |-> formatArguments(field.args),
          return_type |-> formatType(field.type)]
    ELSE [name |-> field.name, description |-> field.description,
          deprecated |-> field.isDeprecated,
          deprecation_reason |-> field.deprecationReason]

\* the item of a query or mutation list
FormatOperationField(field, detailed) ==
  IF detailed
    THEN [name |-> field.name, description |-> field.description,
          deprecated |-> field.isDeprecated,
          deprecation_reason |-> field.deprecationReason,
          arguments |-> formatArguments(field.args),
          return_type |-> formatType(field.type)]
    ELSE [name |-> field.name, description |-> field.description,
          deprecated |-> field.isDeprecated,
          deprecation_reason |-> field.deprecationReason]

\* reading introspectionData.__schema of a payload that has none
NoSchemaTypeError == Throw(STR_TypeError_undefined_schema)

\* buildClientSchema of the graphql library: it rejects a payload without
\* __schema and a root reference to a type that is not a declared object type
BuildClientSchemaFails(doc) ==
  \/ ~doc.hasSchema
  \/ \E root \in {doc.queryType, doc.mutationType, doc.subscriptionType} :
       /\ Truthy(root)
       /\ \/ FindType(doc.types, root) = 0
          \/ doc.types[FindType(doc.types, root)].kind # KIND_OBJECT

\* printSchema of the graphql library, abstracted to the names it prints
PrintSchema(doc) == [i \in 1..Len(doc.types) |-> doc.types[i].name]

\* ------------------------------------------------------------------------
\* The six operations, from the point where fetchIntrospection has returned
\* the document
\* ------------------------------------------------------------------------
getSchema(doc, endpoint, options) ==
  IF BuildClientSchemaFails(doc)
    THEN Throw(STR_Failed_to_build \o STR_introspection_invalid)
    ELSE Return([success |-> TRUE, endpoint |-> endpoint,
                 schema |-> [sdl |-> PrintSchema(doc),
                             introspection |-> doc,
                             types |-> formatTypes(doc.types),
                             queries |-> formatFields(doc.queryType, doc.types),
                             mutations |-> formatFields(doc.mutationType, doc.types),
                             subscriptions |-> formatFields(doc.subscriptionType, doc.types)]])

\* a variant that reports the missing query root as an error, as getFieldDetails does
NoQueries_Error(endpoint) == Throw(STR_No \o STR_query \o STR_type_available)

\* the early return of filterQueries
NoQueries(endpoint) ==
  Return([success |-> TRUE, endpoint |-> endpoint, queries |-> <<>>, total |-> 0])

filterQueries(doc, endpoint, options) ==
  IF ~doc.hasSchema THEN NoSchemaTypeError
  ELSE IF ~Truthy(doc.queryType) THEN NoQueries(endpoint)
  ELSE LET i == FindType(doc.types, doc.queryType)
       IN  IF i = 0 \/ ~doc.types[i].hasFields THEN NoQueries(endpoint)
             ELSE LET Matches(field) == MatchesSearch(field, options.search)
                      queries == IF Truthy(options.search)
                                   THEN SelectSeq(doc.types[i].fields, Matches)
                                   ELSE doc.types[i].fields
                      formattedQueries ==
                        [j \in 1..Len(queries) |->
                           FormatOperationField(queries[j], options.detailed)]
                  IN  Return([success |-> TRUE, endpoint |-> endpoint,
                              search_term |-> options.search,
                              queries |-> formattedQueries,
                              total |-> Len(formattedQueries)])

\* the early return of filterMutations
NoMutations(endpoint) ==
  Return([success |-> TRUE, endpoint |-> endpoint, mutations |-> <<>>, total |-> 0])

filterMutations(doc, endpoint, options) ==
  IF ~doc.hasSchema THEN NoSchemaTypeError
  ELSE IF ~Truthy(doc.mutationType) THEN NoMutations(endpoint)
  ELSE LET i == FindType(doc.types, doc.mutationType)
       IN  IF i = 0 \/ ~doc.types[i].hasFields THEN NoMutations(endpoint)
             ELSE LET Matches(field) == MatchesSearch(field, options.search)
                      mutations == IF Truthy(options.search)
                                     THEN SelectSeq(doc.types[i].fields, Matches)
                                     ELSE doc.types[i].fields
                      formattedMutations ==
                        [j \in 1..Len(mutations) |->
                           FormatOperationField(mutations[j], options.detailed)]
                  IN  Return([success |-> TRUE, endpoint |-> endpoint,
                              search_term |-> options.search,
                              mutations |-> formattedMutations,
                              total |-> Len(formattedMutations)])

\* the item of a type list
FormatListedType(type, detailed) ==
  IF detailed
    THEN [name |-> type.name, kind |-> type.kind, description |-> type.description,
          fields |-> IF type.hasFields THEN ListOf(formatTypeFields(type.fields))
                     ELSE NullList,
          enum_values |-> IF type.hasEnumValues
                            THEN ListOf(formatEnumValues(type.enumValues)) ELSE NullList,
          input_fields |-> IF type.hasInputFields
                             THEN ListOf(formatInputFields(type.inputFields)) ELSE NullList,
          interfaces |-> IF type.hasInterfaces
                           THEN ListOf([k \in 1..Len(type.interfaces) |-> type.interfaces[k].name])
                           ELSE NullList,
          possible_types |-> IF type.hasPossibleTypes
                               THEN ListOf([k \in 1..Len(type.possibleTypes) |->
                                              type.possibleTypes[k].name])
                               ELSE NullList]
    ELSE [name |-> type.name, kind |-> type.kind, description |-> type.description]

\* a variant that keeps a type when it passes either of the two filters given
filterTypes_EitherFilter(doc, endpoint, options) ==
  IF ~doc.hasSchema THEN NoSchemaTypeError
  ELSE LET Visible(t) == ~StartsWith(t.name, STR_dunder)
           Kept(t) ==
             \/ ~Truthy(options.kind) /\ ~Truthy(options.search)
             \/ Truthy(options.kind) /\ t.kind = options.kind
             \/ Truthy(options.search) /\ MatchesSearch(t, options.search)
           types2 == SelectSeq(SelectSeq(doc.types, Visible), Kept)
           formattedTypes ==
             [j \in 1..Len(types2) |-> FormatListedType(types2[j], options.detailed)]
       IN  Return([success |-> TRUE, endpoint |-> endpoint,
                   search_term |-> options.search, kind_filter |-> options.kind,
                   types |-> formattedTypes, total |-> Len(formattedTypes)])

\* a variant that lists the types of the introspection system as well
filterTypes_ListingInternal(doc, endpoint, options) ==
  IF ~doc.hasSchema THEN NoSchemaTypeError
  ELSE LET OfKind(t) == t.kind = options.kind
           Matches(t) == MatchesSearch(t, options.search)
           types0 == doc.types
           types1 == IF Truthy(options.kind) THEN SelectSeq(types0, OfKind) ELSE types0
           types2 == IF Truthy(options.search) THEN SelectSeq(types1, Matches) ELSE types1
           formattedTypes ==
             [j \in 1..Len(types2) |-> FormatListedType(types2[j], options.detailed)]
       IN  Return([success |-> TRUE, endpoint |-> endpoint,
                   search_term |-> options.search, kind_filter |-> options.kind,
                   types |-> formattedTypes, total |-> Len(formattedTypes)])

filterTypes(doc, endpoint, options) ==
  IF ~doc.hasSchema THEN NoSchemaTypeError
  ELSE LET Visible(t) == ~StartsWith(t.name, STR_dunder)
           OfKind(t) == t.kind = options.kind
           Matches(t) == MatchesSearch(t, options.search)
           types0 == SelectSeq(doc.types, Visible)
           types1 == IF Truthy(options.kind) THEN SelectSeq(types0, OfKind) ELSE types0
           types2 == IF Truthy(options.search) THEN SelectSeq(types1, Matches) ELSE types1
           formattedTypes ==
             [j \in 1..Len(types2) |-> FormatListedType(types2[j], options.detailed)]
       IN  Return([success |-> TRUE, endpoint |-> endpoint,
                   search_term |-> options.search, kind_filter |-> options.kind,
                   types |-> formattedTypes, total |-> Len(formattedTypes)])

getTypeDetails(doc, endpoint, options) ==
  IF ~doc.hasSchema THEN NoSchemaTypeError
  ELSE LET i == FindType(doc.types, options.type_name)
       IN  IF i = 0
             THEN Throw(STR_Type_q \o TemplateValue(options.type_name) \o STR_q_not_found)
             ELSE LET type == doc.types[i]
                  IN  Return([success |-> TRUE, endpoint |-> endpoint,
                        type |-> [name |-> type.name, kind |-> type.kind,
                          description |-> type.description,
                          fields |-> IF type.hasFields
                                       THEN ListOf(formatTypeFields(type.fields))
                                       ELSE NullList,
                          enum_values |-> IF type.hasEnumValues
                                            THEN ListOf(formatEnumValues(type.enumValues))
                                            ELSE NullList,
                          input_fields |-> IF type.hasInputFields
                                             THEN ListOf(formatInputFields(type.inputFields))
                                             ELSE NullList,
                          interfaces |-> IF type.hasInterfaces
                                           THEN ListOf([k \in 1..Len(type.interfaces) |->
                                                  [name |-> type.interfaces[k].name,
                                                   kind |-> type.interfaces[k].kind]])
                                           ELSE NullList,
                          possible_types |-> IF type.hasPossibleTypes
                                               THEN ListOf([k \in 1..Len(type.possibleTypes) |->
                                                      [name |-> type.possibleTypes[k].name,
                                                       kind |-> type.possibleTypes[k].kind]])
                                               ELSE NullList,
                          of_type |-> IF type.ofType # <<>>
                                        THEN formatType(<<[kind |-> type.kind, name |-> type.name,
                                                           description |-> type.description]>>
                                                        \o type.ofType)
                                        ELSE <<>>]])

\* a variant that reports a missing root with the message of a root without fields
getFieldDetails_OneRootMessage(doc, endpoint, options) ==
  IF ~doc.hasSchema THEN NoSchemaTypeError
  ELSE LET operationType == JsOr(options.operation_type, STR_query)
           rootType == IF operationType = STR_mutation THEN doc.mutationType
                       ELSE doc.queryType
           i == IF Truthy(rootType) THEN FindType(doc.types, rootType) ELSE 0
       IN  IF i = 0 \/ ~doc.types[i].hasFields
             THEN Throw(operationType \o STR_type_has_no_fields)
             ELSE LET j == FindField(doc.types[i].fields, options.field_name)
                  IN  IF j = 0
                        THEN Throw(STR_Field_q \o TemplateValue(options.field_name)
                                   \o STR_q_not_found_in \o operationType \o STR_type)
                        ELSE LET field == doc.types[i].fields[j]
                             IN  Return([success |-> TRUE, endpoint |-> endpoint,
                                   operation_type |-> operationType,
                                   field |-> [name |-> field.name,
                                     description |-> field.description,
                                     arguments |-> formatArguments(field.args),
                                     return_type |-> formatType(field.type),
                                     deprecated |-> field.isDeprecated,
                                     deprecation_reason |-> field.deprecationReason]])

getFieldDetails(doc, endpoint, options) ==
  IF ~doc.hasSchema THEN NoSchemaTypeError
  ELSE LET operationType == JsOr(options.operation_type, STR_query)
           rootType == IF operationType = STR_mutation THEN doc.mutationType
                       ELSE doc.queryType
       IN  IF ~Truthy(rootType) THEN Throw(STR_No \o operationType \o STR_type_available)
           ELSE LET i == FindType(doc.types, rootType)
                IN  IF i = 0 \/ ~doc.types[i].hasFields
                      THEN Throw(operationType \o STR_type_has_no_fields)
                      ELSE LET j == FindField(doc.types[i].fields, options.field_name)
                           IN  IF j = 0
                                 THEN Throw(STR_Field_q \o TemplateValue(options.field_name)
                                            \o STR_q_not_found_in \o operationType \o STR_type)
                                 ELSE LET field == doc.types[i].fields[j]
                                      IN  Return([success |-> TRUE, endpoint |-> endpoint,
                                            operation_type |-> operationType,
                                            field |-> [name |-> field.name,
                                              description |-> field.description,
                                              arguments |-> formatArguments(field.args),
                                              return_type |-> formatType(field.type),
                                              deprecated |-> field.isDeprecated,
                                              deprecation_reason |-> field.deprecationReason]])

\* ------------------------------------------------------------------------
\* Introspection documents the endpoints answer with (result.data)
\* ------------------------------------------------------------------------
TypeRef_Int == << [kind |-> KIND_SCALAR, name |-> N_Int, description |-> Undefined] >>

TypeRef_NonNullListInt ==
  << [kind |-> KIND_NON_NULL, name |-> Null, description |-> Undefined],
     [kind |-> KIND_LIST, name |-> Null, description |-> Undefined] >> \o TypeRef_Int

Arg_id == [name |-> N_id, description |-> Null, type |-> TypeRef_Int, defaultValue |-> Null]

Field_user ==
  [name |-> N_user, description |-> D_find_a_USER, isDeprecated |-> FALSE,
   deprecationReason |-> Null, args |-> ListOf(<<Arg_id>>), type |-> TypeRef_NonNullListInt]

Field_Users ==
  [name |-> N_Users, description |-> Null, isDeprecated |-> TRUE,
   deprecationReason |-> S_use, args |-> ListOf(<<>>), type |-> TypeRef_Int]

Field_addUser ==
  [name |-> N_addUser, description |-> <<>>, isDeprecated |-> FALSE,
   deprecationReason |-> Null, args |-> ListOf(<<Arg_id>>), type |-> TypeRef_Int]

\* a declared type without any facet
PlainType(name, kind, description) ==
  [name |-> name, kind |-> kind, description |-> description,
   hasFields |-> FALSE, fields |-> <<>>,
   hasEnumValues |-> FALSE, enumValues |-> <<>>,
   hasInputFields |-> FALSE, inputFields |-> <<>>,
   hasInterfaces |-> FALSE, interfaces |-> <<>>,
   hasPossibleTypes |-> FALSE, possibleTypes |-> <<>>,
   ofType |-> <<>>]

ObjectType(name, description, fields) ==
  [PlainType(name, KIND_OBJECT, description) EXCEPT
     !.hasFields = TRUE, !.fields = fields,
     !.hasInterfaces = TRUE, !.interfaces = <<>>]

Type_Int == PlainType(N_Int, KIND_SCALAR, Null)

Type_Role ==
  [PlainType(N_Role, KIND_ENUM, D_find_a_USER) EXCEPT
     !.hasEnumValues = TRUE,
     !.enumValues = << [name |-> N_user, description |-> Null,
                        isDeprecated |-> FALSE, deprecationReason |-> Null] >>]

Type___Type == ObjectType(N___Type, Null, <<>>)

\* a server whose schema has both roots
DocFull ==
  [hasSchema |-> TRUE, queryType |-> N_Query, mutationType |-> N_Mutation,
   subscriptionType |-> Null,
   types |-> << ObjectType(N_Query, Null, <<Field_user, Field_Users>>),
                ObjectType(N_Mutation, Null, <<Field_addUser>>),
                Type_Int, Type_Role, Type___Type >>]

\* no mutation root; the query root has an empty field list
DocQueryOnly ==
  [hasSchema |-> TRUE, queryType |-> N_Query, mutationType |-> Null,
   subscriptionType |-> Null,
   types |-> << ObjectType(N_Query, Null, <<>>), Type_Int >>]

\* no query root
DocMutationOnly ==
  [hasSchema |-> TRUE, queryType |-> Null, mutationType |-> N_Mutation,
   subscriptionType |-> Null,
   types |-> << ObjectType(N_Mutation, Null, <<Field_addUser>>), Type_Int >>]

\* the query root is not declared, the mutation root has no field list
DocDangling ==
  [hasSchema |-> TRUE, queryType |-> N_Missing, mutationType |-> N_Int,
   subscriptionType |-> Null, types |-> << Type_Int >>]

\* the query root has no field list, the mutation root is not declared
DocSwapped ==
  [hasSchema |-> TRUE, queryType |-> N_Int, mutationType |-> N_Missing,
   subscriptionType |-> Null, types |-> << Type_Int >>]

\* a response body without data: result.data is undefined
NoData ==
  [hasSchema |-> FALSE, queryType |-> Null, mutationType |-> Null,
   subscriptionType |-> Null, types |-> <<>>]

Documents == {DocFull, DocQueryOnly, DocMutationOnly, DocDangling, DocSwapped}

\* ------------------------------------------------------------------------
\* What the network can answer
\* ------------------------------------------------------------------------
\* the promise of fetch() rejects, or resolves to a response
NetworkFaults ==
  { [kind |-> "fault", isError |-> TRUE, message |-> STR_ECONNREFUSED],
    [kind |-> "fault", isError |-> FALSE, message |-> <<>>] }

HttpResponses ==
  { [kind |-> "http", status |-> 200, statusText |-> ST_OK],
    [kind |-> "http", status |-> 299, statusText |-> <<>>],
    [kind |-> "http", status |-> 300, statusText |-> <<>>],
    [kind |-> "http", status |-> 404, statusText |-> ST_Not_Found] }

\* result.errors: the field is absent, null, or an array with its JSON text
ErrorsAbsent == [kind |-> "absent", json |-> <<>>]
ErrorsNull == [kind |-> "null", json |-> <<>>]
ErrorsEmpty == [kind |-> "array", json |-> STR_empty_array]
ErrorsSome == [kind |-> "array", json |-> STR_errors_json]

\* response.json() rejects, or resolves to a body
Bodies(docs) ==
  { [kind |-> "unparsable", errors |-> ErrorsAbsent, data |-> NoData] }
  \cup [kind : {"json"}, errors : {ErrorsAbsent, ErrorsNull, ErrorsEmpty, ErrorsSome},
        data : docs \cup {NoData}]

\* response.ok
ResponseOk(response) == response.status >= 200 /\ response.status <= 299

\* if (result.errors): an array is truthy, also the empty one
ErrorsTruthy(errors) == errors.kind = "array"

\* a variant that drops the message of the caught error
WrapFetchError_Generic(error) ==
  Throw(STR_Failed_to_fetch \o STR_Unknown_error)

\* the catch block of fetchIntrospection
WrapFetchError(error) ==
  IF error.isError THEN Throw(STR_Failed_to_fetch \o error.message)
  ELSE Throw(STR_Failed_to_fetch \o STR_Unknown_error)

\* a variant that keeps the timestamp of the entry it replaces
CacheSet_KeepTimestamp(c, cacheKey, data, dateNow) ==
  [k \in DOMAIN c \cup {cacheKey} |->
     IF k = cacheKey
       THEN [data |-> data,
             timestamp |-> IF cacheKey \in DOMAIN c THEN c[cacheKey].timestamp ELSE dateNow]
       ELSE c[k]]

\* a variant that removes the expired entries when it stores one
CacheSet_EvictingExpired(c, cacheKey, data, dateNow) ==
  [k \in { j \in DOMAIN c : isValidCache(c[j], dateNow) } \cup {cacheKey} |->
     IF k = cacheKey THEN [data |-> data, timestamp |-> dateNow] ELSE c[k]]

\* a variant that starts the map afresh when it stores an entry
CacheSet_Clearing(c, cacheKey, data, dateNow) ==
  [k \in {cacheKey} |-> [data |-> data, timestamp |-> dateNow]]

\* this.cache.set(cacheKey, {data, timestamp})
CacheSet(c, cacheKey, data, dateNow) ==
  [k \in DOMAIN c \cup {cacheKey} |->
     IF k = cacheKey THEN [data |-> data, timestamp |-> dateNow] ELSE c[k]]

\* a variant that uses an entry of any age
CacheHit_AnyAge(c, cacheKey, dateNow) == cacheKey \in DOMAIN c

\* a variant that never uses the cache
CacheHit_Never(c, cacheKey, dateNow) == FALSE

\* cached && this.isValidCache(cached)
CacheHit(c, cacheKey, dateNow) ==
  cacheKey \in DOMAIN c /\ isValidCache(c[cacheKey], dateNow)

\* ------------------------------------------------------------------------
\* The tool boundary (CallToolRequestSchema handler)
\* ------------------------------------------------------------------------
ToolNames ==
  { TOOL_get_graphql_schema, TOOL_filter_queries, TOOL_filter_mutations,
    TOOL_filter_types, TOOL_get_type_details, TOOL_get_field_details }

\* JSON.stringify leaves out the keys whose value is undefined; at the top
\* level of a result these can be search_term and kind_filter
JSONStringify(value) ==
  LET kept == { k \in DOMAIN value :
                  ~(k \in {"search_term", "kind_filter"} /\ value[k] = Undefined) }
  IN  [k \in kept |-> value[k]]

\* a variant that lets the error escape to the host
ToolResponse_Rethrow(result) ==
  IF result.threw
    THEN [thrown |-> TRUE, response |-> [success |-> FALSE]]
    ELSE [thrown |-> FALSE, response |-> JSONStringify(result.value)]

\* the try/catch of the handler: the response text, parsed
ToolResponse(result) ==
  IF result.threw
    THEN [thrown |-> FALSE,
          response |-> [error |-> IF result.isError THEN result.message
                                  ELSE STR_Unknown_error,
                        success |-> FALSE]]
    ELSE [thrown |-> FALSE, response |-> JSONStringify(result.value)]

\* the service method the switch selects, applied to the fetched document
Operation(name, doc, endpoint, options) ==
  CASE name = TOOL_get_graphql_schema -> getSchema(doc, endpoint, options)
    [] name = TOOL_filter_queries -> filterQueries(doc, endpoint, options)
    [] name = TOOL_filter_mutations -> filterMutations(doc, endpoint, options)
    [] name = TOOL_filter_types -> filterTypes(doc, endpoint, options)
    [] name = TOOL_get_type_details -> getTypeDetails(doc, endpoint, options)
    [] name = TOOL_get_field_details -> getFieldDetails(doc, endpoint, options)

\* the arguments object when the request carries none: the methods with a
\* default parameter see {}, the other two read a property of undefined
NoOptions ==
  [given |-> FALSE, endpoint |-> Undefined, username |-> Undefined,
   password |-> Undefined, bearer_token |-> Undefined, search |-> Undefined,
   detailed |-> FALSE, kind |-> Undefined, type_name |-> Undefined,
   field_name |-> Undefined, operation_type |-> Undefined]

HasDefaultOptions(name) ==
  name \in { TOOL_get_graphql_schema, TOOL_filter_queries, TOOL_filter_mutations,
             TOOL_filter_types }

\* what stops a call before fetchIntrospection is reached
FailsBeforeFetch(name, options) ==
  name \notin ToolNames \/ (~options.given /\ ~HasDefaultOptions(name))

ErrorBeforeFetch(name, options) ==
  IF name \notin ToolNames THEN Throw(STR_Unknown_tool \o name)
  ELSE Throw(STR_TypeError_undefined_endpoint)

\* ------------------------------------------------------------------------
\* Requests of the host
\* ------------------------------------------------------------------------
Options(endpoint, auth, search, detailed, kind, type_name, field_name, operation_type) ==
  [given |-> TRUE, endpoint |-> endpoint, username |-> auth.username,
   password |-> auth.password, bearer_token |-> auth.bearer_token,
   search |-> search, detailed |-> detailed, kind |-> kind,
   type_name |-> type_name, field_name |-> field_name,
   operation_type |-> operation_type]

\* every auth descriptor over one username, one password and one token, each
\* of them possibly absent or the empty string
AuthDescriptors ==
  [username : {Undefined, <<>>, U_u}, password : {Undefined, <<>>, P_p},
   bearer_token : {Undefined, <<>>, T_t}]

NoAuth == [username |-> Undefined, password |-> Undefined, bearer_token |-> Undefined]

\* the arguments each tool reads, over small sets
OptionsOf(name, endpoints, auths) ==
  IF name \in {TOOL_filter_queries, TOOL_filter_mutations}
    THEN { Options(e, a, s, d, Undefined, Undefined, Undefined, Undefined) :
             e \in endpoints, a \in auths, s \in {Undefined, S_use}, d \in BOOLEAN }
  ELSE IF name = TOOL_filter_types
    THEN { Options(e, a, s, FALSE, k, Undefined, Undefined, Undefined) :
             e \in endpoints, a \in auths, s \in {Undefined, S_use},
             k \in {Undefined, KIND_SCALAR} }
  ELSE IF name = TOOL_get_type_details
    THEN { Options(e, a, Undefined, FALSE, Undefined, n, Undefined, Undefined) :
             e \in endpoints, a \in auths, n \in {N_Int, N_Missing} }
  ELSE IF name = TOOL_get_field_details
    THEN { Options(e, a, Undefined, FALSE, Undefined, Undefined, f, o) :
             e \in endpoints, a \in auths, f \in {N_user, N_Missing},
             o \in {Undefined, STR_mutation} }
  ELSE { Options(e, a, Undefined, FALSE, Undefined, Undefined, Undefined, Undefined) :
             e \in endpoints, a \in auths }

\* ------------------------------------------------------------------------
\* State
\* ------------------------------------------------------------------------
\*   cache     this.cache: cache key -> [data, timestamp]
\*   now       Date.now()
\*   call      the tool calls in flight, by slot
\*   fetchLog  history: the successful fetches, in the order they were stored
\*   env       process.env at startup: the setting of CACHE_DURATION_MS (the
\*             source reads BASE_URL only, taken as not set)
VARIABLES cache, now, call, fetchLog, env

vars == <<cache, now, call, fetchLog, env>>

\* process.env without the setting
NoOverride == [CACHE_DURATION_MS |-> Undefined]

Calls == 1..MaxCalls

\* the instants the clock can show: around each multiple of the cache duration
TimePoints ==
  { t \in { e * CACHE_DURATION + i : e \in 0..MaxEpochs, i \in (0 - 1)..MaxOvertime } :
      t >= 0 }

NotSettled == [kind |-> "none"]

\* a free slot.  Besides the locals of the handler, a call records what it
\* saw: the cache lookup (lookupAt, found, foundTimestamp, logLenAtLookup),
\* the requests it sent, what the network answered (settled, parsed, errors),
\* the position of its own store in fetchLog (stored) and what the awaited
\* service method settled with (returned).
Idle ==
  [pc |-> "idle", name |-> <<>>, options |-> NoOptions, endpoint |-> <<>>,
   cacheKey |-> <<>>, lookupAt |-> 0 - 1, found |-> FALSE, foundTimestamp |-> 0,
   logLenAtLookup |-> 0,
   requests |-> 0, authorization |-> Undefined, settled |-> NotSettled,
   bodyRead |-> FALSE, parsed |-> FALSE, errors |-> ErrorsAbsent,
   gotDoc |-> FALSE, doc |-> NoData, fromCache |-> FALSE, stored |-> 0,
   returned |-> [none |-> TRUE], thrown |-> FALSE, response |-> [none |-> TRUE]]

\* the call ends: the handler turns the result into the response
Finish(rec, result) ==
  [rec EXCEPT !.pc = "done", !.returned = result,
              !.thrown = ToolResponse(result).thrown,
              !.response = ToolResponse(result).response]

\* a variant that issues the request a second time before it gives up
FetchFailed_Retry(rec, error) ==
  IF rec.requests < 2
    THEN [rec EXCEPT !.pc = "fetching", !.requests = @ + 1, !.bodyRead = FALSE,
                     !.parsed = FALSE]
    ELSE Finish(rec, WrapFetchError(error))

\* an error thrown inside the try block of fetchIntrospection ends the call
FetchFailed(rec, error) == Finish(rec, WrapFetchError(error))

\* the call has the document: the rest of the service method runs
Finished(rec, doc, fromCache, stored) ==
  Finish([rec EXCEPT !.gotDoc = TRUE, !.doc = doc, !.fromCache = fromCache,
                     !.stored = stored],
         Operation(rec.name, doc, rec.endpoint, rec.options))

Init ==
  /\ cache = << >>
  /\ now = 0
  /\ call = [c \in Calls |-> Idle]
  /\ fetchLog = << >>
  /\ env = NoOverride

InFlight == { c \in Calls : call[c].pc \in {"fetching", "reading"} }

\* the host calls a tool: the handler runs up to the first await
Start(c, name, options) ==
  /\ call[c].pc = "idle"
  /\ UNCHANGED <<cache, now, fetchLog, env>>
  /\ LET rec == [Idle EXCEPT !.name = name, !.options = options]
     IN  IF FailsBeforeFetch(name, options)
           THEN call' = [call EXCEPT ![c] = Finish(rec, ErrorBeforeFetch(name, options))]
           ELSE LET endpoint == JsNullish(options.endpoint, DEFAULT_ENDPOINT)
                    cacheKey == getCacheKey(endpoint, options)
                    looked == [rec EXCEPT !.endpoint = endpoint, !.cacheKey = cacheKey,
                                 !.lookupAt = now,
                                 !.found = (cacheKey \in DOMAIN cache),
                                 !.foundTimestamp =
                                    IF cacheKey \in DOMAIN cache
                                      THEN cache[cacheKey].timestamp ELSE 0,
                                 !.logLenAtLookup = Len(fetchLog)]
                IN  IF CacheHit(cache, cacheKey, now)
                      THEN call' = [call EXCEPT ![c] =
                                      Finished(looked, cache[cacheKey].data, TRUE, 0)]
                      ELSE /\ Len(fetchLog) + Cardinality(InFlight) < MaxFetches
                           /\ call' = [call EXCEPT ![c] =
                                         [looked EXCEPT !.pc = "fetching", !.requests = 1,
                                            !.authorization = AuthorizationHeader(options)]]

\* the promise of fetch() settles
FetchSettles(c, outcome) ==
  /\ call[c].pc = "fetching"
  /\ UNCHANGED <<cache, now, fetchLog, env>>
  /\ LET rec == [call[c] EXCEPT !.settled = outcome]
     IN  IF outcome.kind = "fault"
           THEN call' = [call EXCEPT ![c] =
                           FetchFailed(rec, [isError |-> outcome.isError,
                                             message |-> outcome.message])]
         ELSE IF ~ResponseOk(outcome)
           THEN call' = [call EXCEPT ![c] =
                           FetchFailed(rec,
                             Throw(STR_HTTP \o NumberToString(outcome.status)
                                   \o STR_colon_space \o outcome.statusText))]
         ELSE call' = [call EXCEPT ![c] = [rec EXCEPT !.pc = "reading", !.bodyRead = TRUE]]

\* the promise of response.json() settles
JsonSettles(c, body) ==
  /\ call[c].pc = "reading"
  /\ UNCHANGED <<now, env>>
  /\ IF body.kind = "unparsable"
       THEN /\ call' = [call EXCEPT ![c] = FetchFailed(call[c], Throw(STR_invalid_json))]
            /\ UNCHANGED <<cache, fetchLog>>
     ELSE LET rec == [call[c] EXCEPT !.parsed = TRUE, !.errors = body.errors]
          IN  IF ErrorsTruthy(body.errors)
                THEN /\ call' = [call EXCEPT ![c] =
                                   FetchFailed(rec, Throw(STR_GraphQL_errors
                                                          \o body.errors.json))]
                     /\ UNCHANGED <<cache, fetchLog>>
                ELSE /\ cache' = CacheSet(cache, rec.cacheKey, body.data, now)
                     /\ fetchLog' = Append(fetchLog,
                          [cacheKey |-> rec.cacheKey, endpoint |-> rec.endpoint,
                           username |-> rec.options.username,
                           password |-> rec.options.password,
                           bearer_token |-> rec.options.bearer_token,
                           data |-> body.data, timestamp |-> now])
                     /\ call' = [call EXCEPT ![c] =
                                   Finished(rec, body.data, FALSE, Len(fetchLog) + 1)]

\* the host receives the response; the slot is free again
Deliver(c) ==
  /\ call[c].pc = "done"
  /\ call' = [call EXCEPT ![c] = Idle]
  /\ UNCHANGED <<cache, now, fetchLog, env>>

\* time passes
Tick(t) ==
  /\ t > now
  /\ now' = t
  /\ UNCHANGED <<cache, call, fetchLog, env>>

TypeOK ==
  /\ now \in TimePoints
  /\ \A c \in Calls : call[c].pc \in {"idle", "fetching", "reading", "done"}
  /\ Len(fetchLog) <= MaxFetches

\* ------------------------------------------------------------------------
\* Spec: concurrent calls against the shared cache, over two endpoints and
\* one username with two passwords
\* ------------------------------------------------------------------------
CacheEndpoints == {Undefined, E_a}

CacheAuthDescriptors ==
  { [username |-> U_u, password |-> P_p, bearer_token |-> Undefined],
    [username |-> U_u, password |-> P_q, bearer_token |-> Undefined] }

CacheDocuments == {DocFull, DocDangling}

CacheRequests == OptionsOf(TOOL_get_graphql_schema, CacheEndpoints, CacheAuthDescriptors)

CacheOutcomes ==
  { [kind |-> "fault", isError |-> TRUE, message |-> STR_ECONNREFUSED],
    [kind |-> "http", status |-> 200, statusText |-> ST_OK],
    [kind |-> "http", status |-> 404, statusText |-> ST_Not_Found] }

CacheBodies == [kind : {"json"}, errors : {ErrorsAbsent, ErrorsSome}, data : CacheDocuments]

Next ==
  \/ \E c \in Calls, o \in CacheRequests : Start(c, TOOL_filter_queries, o)
  \/ \E c \in Calls, o \in CacheOutcomes : FetchSettles(c, o)
  \/ \E c \in Calls, b \in CacheBodies : JsonSettles(c, b)
  \/ \E c \in Calls : Deliver(c)
  \/ \E t \in TimePoints : Tick(t)

Spec == Init /\ [][Next]_vars

\* ------------------------------------------------------------------------
\* SpecTools: one call at a time, over every tool name, every argument the
\* tool reads, every document and everything the network can answer
\* ------------------------------------------------------------------------
ToolRequestsOf(n) ==
  { [name |-> n, options |-> o] : o \in OptionsOf(n, {Undefined}, {NoAuth}) \cup {NoOptions} }

NextTools ==
  \/ \E n \in ToolNames \cup {TOOL_unknown} :
       \E r \in ToolRequestsOf(n) : Start(1, r.name, r.options)
  \/ \E o \in NetworkFaults \cup HttpResponses : FetchSettles(1, o)
  \/ \E b \in Bodies(Documents) : JsonSettles(1, b)
  \/ Deliver(1)
  \/ \E t \in TimePoints : Tick(t)

SpecTools == Init /\ [][NextTools]_vars

\* ------------------------------------------------------------------------
\* SpecAuth: one call at a time, over every auth descriptor, while the clock
\* stands still
\* ------------------------------------------------------------------------
AuthBodies == { b \in Bodies({DocFull}) : b.errors \in {ErrorsAbsent, ErrorsSome} }

NextAuth ==
  \/ \E o \in OptionsOf(TOOL_get_graphql_schema, {Undefined}, AuthDescriptors) :
       Start(1, TOOL_filter_queries, o)
  \/ \E o \in CacheOutcomes : FetchSettles(1, o)
  \/ \E b \in AuthBodies : JsonSettles(1, b)
  \/ Deliver(1)

SpecAuth == Init /\ [][NextAuth]_vars

\* ------------------------------------------------------------------------
\* SpecInspect: one call at a time against one endpoint, over the search
\* terms, kinds and names of the five inspecting tools and over documents
\* whose field has every type reference of up to MaxDepth wrappers
\* ------------------------------------------------------------------------
WrapperNodes ==
  { [kind |-> KIND_NON_NULL, name |-> Null, description |-> Undefined],
    [kind |-> KIND_LIST, name |-> Null, description |-> Undefined] }

\* the null reference, and every nesting of wrappers around Int
TypeRefs ==
  {<<>>} \cup UNION { { w \o TypeRef_Int : w \in [1..d -> WrapperNodes] } : d \in 0..MaxDepth }

\* a server whose query root has one field, of that type, without an argument list
DocOfRef(ref) ==
  [hasSchema |-> TRUE, queryType |-> N_Query, mutationType |-> Null,
   subscriptionType |-> Null,
   types |-> << ObjectType(N_Query, Null,
                   << [name |-> N_user, description |-> Null, isDeprecated |-> FALSE,
                       deprecationReason |-> Null, args |-> NullList, type |-> ref] >>),
                Type_Int >>]

InspectDocuments == Documents \cup { DocOfRef(ref) : ref \in TypeRefs }

SearchTerms == {Undefined, <<>>, S_use, S_USER, S_find, S_zz, N_Users}

\* absent, or one of the kinds the tool declares
KindFilters == {Undefined, KIND_SCALAR, KIND_OBJECT, KIND_ENUM, KIND_INTERFACE}

InspectRequestsOf(name) ==
  IF name \in {TOOL_filter_queries, TOOL_filter_mutations}
    THEN { Options(Undefined, NoAuth, s, d, Undefined, Undefined, Undefined, Undefined) :
             s \in SearchTerms, d \in BOOLEAN }
  ELSE IF name = TOOL_filter_types
    THEN { Options(Undefined, NoAuth, s, d, k, Undefined, Undefined, Undefined) :
             s \in SearchTerms, d \in BOOLEAN, k \in KindFilters }
  ELSE IF name = TOOL_get_type_details
    THEN { Options(Undefined, NoAuth, Undefined, FALSE, Undefined, n, Undefined, Undefined) :
             n \in {N_Int, N_int, N_Missing, N___Type, <<>>} }
  ELSE { Options(Undefined, NoAuth, Undefined, FALSE, Undefined, Undefined, f, o) :
             f \in {N_user, N_User, N_addUser, N_Missing},
             o \in {Undefined, STR_query, STR_mutation} }

InspectTools ==
  { TOOL_filter_queries, TOOL_filter_mutations, TOOL_filter_types,
    TOOL_get_type_details, TOOL_get_field_details }

NextInspect ==
  \/ \E n \in InspectTools : \E o \in InspectRequestsOf(n) : Start(1, n, o)
  \/ FetchSettles(1, [kind |-> "http", status |-> 200, statusText |-> ST_OK])
  \/ \E d \in InspectDocuments :
       JsonSettles(1, [kind |-> "json", errors |-> ErrorsAbsent, data |-> d])
  \/ Deliver(1)

SpecInspect == Init /\ [][NextInspect]_vars

\* ------------------------------------------------------------------------
\* SpecPairs: the calls of filter_queries the host keeps in flight at once,
\* with and without a search term and with both values of detailed
\* ------------------------------------------------------------------------
PairDocuments == {DocFull, DocOfRef(<<>>)}

PairRequests ==
  { Options(Undefined, NoAuth, s, d, Undefined, Undefined, Undefined, Undefined) :
      s \in {Undefined, S_find}, d \in BOOLEAN }

NextPairs ==
  \/ \E c \in Calls, o \in PairRequests : Start(c, TOOL_filter_queries, o)
  \/ \E c \in Calls : FetchSettles(c, [kind |-> "http", status |-> 200, statusText |-> ST_OK])
  \/ \E c \in Calls, d \in PairDocuments :
       JsonSettles(c, [kind |-> "json", errors |-> ErrorsAbsent, data |-> d])
  \/ \E c \in Calls : Deliver(c)

SpecPairs == Init /\ [][NextPairs]_vars

\* ------------------------------------------------------------------------
\* SpecLive: one call at a time against the shared cache while time passes.
\* The event loop runs every continuation that is ready, the clock advances
\* and every network promise settles.  The host, too, is taken to go on
\* calling (a call that names no tool is always possible): what fails under
\* these conditions fails all the more when the host may stop.
\* ------------------------------------------------------------------------
LiveRequests ==
  { [name |-> TOOL_filter_queries, options |-> o] : o \in CacheRequests }
  \cup { [name |-> TOOL_unknown, options |-> NoOptions] }

NextLive ==
  \/ \E r \in LiveRequests : Start(1, r.name, r.options)
  \/ \E o \in CacheOutcomes : FetchSettles(1, o)
  \/ \E b \in CacheBodies : JsonSettles(1, b)
  \/ Deliver(1)
  \/ \E t \in TimePoints : Tick(t)

Fairness ==
  /\ WF_vars(\E r \in LiveRequests : Start(1, r.name, r.options))
  /\ WF_vars(\E o \in CacheOutcomes : FetchSettles(1, o))
  /\ WF_vars(\E b \in CacheBodies : JsonSettles(1, b))
  /\ WF_vars(Deliver(1))
  /\ WF_vars(\E t \in TimePoints : Tick(t))

SpecLive == Init /\ [][NextLive]_vars /\ Fairness

\* ------------------------------------------------------------------------
\* SpecEnv: the process starts with or without a setting of
\* CACHE_DURATION_MS, then serves one call at a time while time passes
\* ------------------------------------------------------------------------
MS_299999 == <<50, 57, 57, 57, 57, 57>>  \* '299999'
MS_600000 == <<54, 48, 48, 48, 48, 48>>  \* '600000'

Environments == [CACHE_DURATION_MS : {Undefined, MS_299999, MS_600000}]

InitEnv ==
  /\ cache = << >>
  /\ now = 0
  /\ call = [c \in Calls |-> Idle]
  /\ fetchLog = << >>
  /\ env \in Environments

NextEnv ==
  \/ \E o \in CacheRequests : Start(1, TOOL_filter_queries, o)
  \/ \E o \in CacheOutcomes : FetchSettles(1, o)
  \/ \E b \in CacheBodies : JsonSettles(1, b)
  \/ Deliver(1)
  \/ \E t \in TimePoints : Tick(t)

SpecEnv == InitEnv /\ [][NextEnv]_vars

\* ------------------------------------------------------------------------
\* SpecKeys: one call at a time over endpoints and usernames whose texts
\* hold the separator and the sentinel of the cache key
\* ------------------------------------------------------------------------
E_a_b == <<104, 116, 116, 112, 58, 47, 47, 97, 58, 98>>  \* 'http://a:b'
U_b_u == <<98, 58, 117>>  \* 'b:u'

KeyEndpoints == {E_a, E_a_b}

KeyAuthDescriptors ==
  { NoAuth,
    [username |-> STR_no_auth, password |-> P_p, bearer_token |-> Undefined],
    [username |-> U_u, password |-> P_p, bearer_token |-> Undefined],
    [username |-> U_b_u, password |-> P_p, bearer_token |-> Undefined] }

KeyRequests == OptionsOf(TOOL_get_graphql_schema, KeyEndpoints, KeyAuthDescriptors)

NextKeys ==
  \/ \E o \in KeyRequests : Start(1, TOOL_filter_queries, o)
  \/ \E o \in CacheOutcomes : FetchSettles(1, o)
  \/ \E b \in CacheBodies : JsonSettles(1, b)
  \/ Deliver(1)
  \/ \E t \in TimePoints : Tick(t)

SpecKeys == Init /\ [][NextKeys]_vars

\* ------------------------------------------------------------------------
\* SpecTokens: one call at a time for one username, with one of two
\* passwords and with or without one of two bearer tokens
\* ------------------------------------------------------------------------
T_s == <<115>>  \* 's'

TokenAuthDescriptors ==
  [username : {U_u}, password : {P_p, P_q}, bearer_token : {Undefined, T_t, T_s}]

TokenRequests == OptionsOf(TOOL_get_graphql_schema, {E_a}, TokenAuthDescriptors)

NextTokens ==
  \/ \E o \in TokenRequests : Start(1, TOOL_filter_queries, o)
  \/ \E o \in CacheOutcomes : FetchSettles(1, o)
  \/ \E b \in CacheBodies : JsonSettles(1, b)
  \/ Deliver(1)
  \/ \E t \in TimePoints : Tick(t)

SpecTokens == Init /\ [][NextTokens]_vars

\* ------------------------------------------------------------------------
\* SpecCross: a call of filter_types and a call of get_type_details in
\* flight at once, on documents whose types have distinct names (as the
\* types of a GraphQL schema have)
\* ------------------------------------------------------------------------
CrossDocuments == {DocFull, DocQueryOnly}

CrossListRequests ==
  { Options(Undefined, NoAuth, s, d, k, Undefined, Undefined, Undefined) :
      s \in {Undefined, S_find, S_use}, d \in BOOLEAN,
      k \in {Undefined, KIND_ENUM, KIND_OBJECT} }

CrossNames == {N_Int, N_Role, N_Query, N___Type, N_Missing}

CrossLookupRequests ==
  { Options(Undefined, NoAuth, Undefined, FALSE, Undefined, n, Undefined, Undefined) :
      n \in CrossNames }

NextCross ==
  \/ \E o \in CrossListRequests : Start(1, TOOL_filter_types, o)
  \/ \E o \in CrossLookupRequests : Start(2, TOOL_get_type_details, o)
  \/ \E c \in 1..2 : FetchSettles(c, [kind |-> "http", status |-> 200, statusText |-> ST_OK])
  \/ \E c \in 1..2, d \in CrossDocuments :
       JsonSettles(c, [kind |-> "json", errors |-> ErrorsAbsent, data |-> d])
  \/ \E c \in 1..2 : Deliver(c)

SpecCross == Init /\ [][NextCross]_vars

\* ------------------------------------------------------------------------
\* Vocabulary of the claims
\* ------------------------------------------------------------------------
\* the auth identity of a descriptor: the username, else the bearer token,
\* else none (tagged, so that a username and a token never compare equal)
AuthIdentity(a) ==
  IF Truthy(a.username) THEN <<0>> \o a.username
  ELSE IF Truthy(a.bearer_token) THEN <<1>> \o a.bearer_token
  ELSE <<2>>

\* the call has reached the cache lookup of fetchIntrospection
LookedUp(c) == call[c].lookupAt >= 0

\* the age of the entry the lookup of the call found
AgeAtLookup(c) == call[c].lookupAt - call[c].foundTimestamp

\* the position in fetchLog of the last of the first n fetches that was
\* stored under the key, 0 when there is none
LastStoreFor(key, n) ==
  LET stores == { i \in 1..n : fetchLog[i].cacheKey = key }
  IN  IF stores = {} THEN 0 ELSE CHOOSE i \in stores : \A j \in stores : j <= i

IsFailureEnvelope(r) == DOMAIN r = {"error", "success"} /\ r.success = FALSE

IsSuccessPayload(r) ==
  /\ "success" \in DOMAIN r
  /\ "error" \notin DOMAIN r
  /\ r.success = TRUE

\* the 6-bit value of a character of the base64 alphabet
Base64Value(ch) ==
  IF ch >= 65 /\ ch <= 90 THEN ch - 65
  ELSE IF ch >= 97 /\ ch <= 122 THEN ch - 97 + 26
  ELSE IF ch >= 48 /\ ch <= 57 THEN ch - 48 + 52
  ELSE IF ch = 43 THEN 62 ELSE 63

RECURSIVE Base64Decode(_)
\* the bytes a base64 text stands for
Base64Decode(s) ==
  IF Len(s) < 4 THEN <<>>
  ELSE LET a == Base64Value(s[1])
           b == Base64Value(s[2])
           c == Base64Value(s[3])
           d == Base64Value(s[4])
       IN  IF s[3] = 61 THEN << a * 4 + b \div 16 >>
           ELSE IF s[4] = 61 THEN << a * 4 + b \div 16, (b % 16) * 16 + c \div 4 >>
           ELSE << a * 4 + b \div 16, (b % 16) * 16 + c \div 4, (c % 4) * 64 + d >>
                \o Base64Decode(SubSeq(s, 5, Len(s)))

\* ------------------------------------------------------------------------
\* C1
\* ------------------------------------------------------------------------
\* the pairs (second call, first call's fetch) the claim is about: same
\* resolved endpoint, same auth identity, the fetch was stored before the
\* second call looked up the cache, and less than the cache duration before
C1_Pairs ==
  { p \in Calls \X (1..Len(fetchLog)) :
      /\ LookedUp(p[1])
      /\ p[2] <= call[p[1]].logLenAtLookup
      /\ fetchLog[p[2]].endpoint = call[p[1]].endpoint
      /\ AuthIdentity(fetchLog[p[2]]) = AuthIdentity(call[p[1]].options)
      /\ call[p[1]].lookupAt - fetchLog[p[2]].timestamp < CACHE_DURATION }

\* C1 as stated: the second call issues no network request and works on a
\* document equal to the one the first call received.
C1_SecondGetsFirstsDocument ==
  \A p \in C1_Pairs :
    /\ call[p[1]].requests = 0
    /\ call[p[1]].gotDoc
    /\ call[p[1]].doc = fetchLog[p[2]].data

\* C1 as amended: the second call issues no network request and works on the
\* document of the last fetch that was stored under its cache key before it
\* looked up the cache (the first call's document, unless a later fetch for
\* the same key was stored in between).
C1_SecondGetsLatestDocument ==
  \A p \in C1_Pairs :
    /\ call[p[1]].requests = 0
    /\ call[p[1]].gotDoc
    /\ call[p[1]].doc =
         fetchLog[LastStoreFor(call[p[1]].cacheKey, call[p[1]].logLenAtLookup)].data

\* a call was served from the cache within the window of an earlier fetch
C1_Witness ==
  \E p \in C1_Pairs :
    /\ call[p[1]].pc = "done"
    /\ call[p[1]].fromCache
    /\ call[p[1]].doc = DocFull
    /\ IsSuccessPayload(call[p[1]].response)

\* ------------------------------------------------------------------------
\* C2
\* ------------------------------------------------------------------------
C2_Expired(c) == LookedUp(c) /\ call[c].found /\ AgeAtLookup(c) >= CACHE_DURATION

\* C2: an entry is reused only while its age is strictly less than the cache
\* duration; a lookup at an age equal to or greater than the duration issues
\* a fresh request, and its success replaces the entry by the new document
\* with the time of the store as timestamp.
C2_ReusedOnlyWhileFresh ==
  \A c \in Calls :
    /\ call[c].fromCache => call[c].found /\ AgeAtLookup(c) < CACHE_DURATION
    /\ C2_Expired(c) => call[c].requests = 1 /\ ~call[c].fromCache
    /\ ( /\ C2_Expired(c)
         /\ call[c].stored > 0
         /\ LastStoreFor(call[c].cacheKey, Len(fetchLog)) = call[c].stored )
       => /\ cache[call[c].cacheKey] =
               [data |-> call[c].doc, timestamp |-> fetchLog[call[c].stored].timestamp]
          /\ fetchLog[call[c].stored].timestamp >= call[c].lookupAt
          /\ fetchLog[call[c].stored].timestamp > call[c].foundTimestamp

\* an entry of age exactly the cache duration was found and replaced
C2_Witness ==
  \E c \in Calls :
    /\ C2_Expired(c)
    /\ AgeAtLookup(c) = CACHE_DURATION
    /\ call[c].pc = "done"
    /\ call[c].stored > 0
    /\ cache[call[c].cacheKey].timestamp > call[c].foundTimestamp

\* ------------------------------------------------------------------------
\* C3
\* ------------------------------------------------------------------------
\* C3: every tool call that ends, ends with a response returned to the host,
\* which is either a success payload or the failure envelope {success: false,
\* error}, never both and never an error thrown across the boundary; a call
\* that did not get a document ends with the failure envelope.
C3_AlwaysAResponse ==
  \A c \in Calls :
    call[c].pc = "done" =>
      /\ ~call[c].thrown
      /\ IsFailureEnvelope(call[c].response) \/ IsSuccessPayload(call[c].response)
      /\ ~(IsFailureEnvelope(call[c].response) /\ IsSuccessPayload(call[c].response))
      /\ ~call[c].gotDoc => IsFailureEnvelope(call[c].response)

\* a call of an unknown tool ended with the failure envelope
C3_Witness ==
  \E c \in Calls :
    /\ call[c].pc = "done"
    /\ call[c].name = TOOL_unknown
    /\ IsFailureEnvelope(call[c].response)
    /\ call[c].response.error = STR_Unknown_tool \o TOOL_unknown

\* ------------------------------------------------------------------------
\* C4
\* ------------------------------------------------------------------------
\* the pairs (second call, first call's fetch) with the same endpoint, the
\* same username and bearer token and a different password, the second
\* looking up within the cache window of the first's fetch
C4_Pairs ==
  { p \in Calls \X (1..Len(fetchLog)) :
      /\ LookedUp(p[1])
      /\ p[2] <= call[p[1]].logLenAtLookup
      /\ fetchLog[p[2]].endpoint = call[p[1]].endpoint
      /\ Truthy(fetchLog[p[2]].username)
      /\ fetchLog[p[2]].username = call[p[1]].options.username
      /\ fetchLog[p[2]].bearer_token = call[p[1]].options.bearer_token
      /\ fetchLog[p[2]].password # call[p[1]].options.password
      /\ call[p[1]].lookupAt - fetchLog[p[2]].timestamp < CACHE_DURATION }

\* C4: the cache key does not depend on the password: a call with the same
\* endpoint and username and another password, within the cache window, is
\* served the cached document and issues no network request.
C4_PasswordNotInKey ==
  \A p \in C4_Pairs :
    /\ call[p[1]].requests = 0
    /\ call[p[1]].fromCache
    /\ call[p[1]].cacheKey = fetchLog[p[2]].cacheKey
    /\ call[p[1]].doc =
         fetchLog[LastStoreFor(call[p[1]].cacheKey, call[p[1]].logLenAtLookup)].data

\* a call with password q was served the document fetched with password p
C4_Witness ==
  \E p \in C4_Pairs :
    /\ call[p[1]].pc = "done"
    /\ call[p[1]].options.password = P_q
    /\ fetchLog[p[2]].password = P_p
    /\ call[p[1]].doc = fetchLog[p[2]].data

\* ------------------------------------------------------------------------
\* C5
\* ------------------------------------------------------------------------
\* an argument the request carries, whatever its value
Present(v) == v # Undefined

\* C5 as stated: Bearer if a bearer token is present, else Basic if username
\* and password are both present, else no Authorization header.
C5_HeaderByPresence ==
  \A c \in Calls :
    call[c].requests >= 1 =>
      LET o == call[c].options
      IN  IF Present(o.bearer_token)
            THEN call[c].authorization = STR_Bearer \o o.bearer_token
          ELSE IF Present(o.username) /\ Present(o.password)
            THEN call[c].authorization =
                   STR_Basic \o Base64(o.username \o STR_colon \o o.password)
          ELSE call[c].authorization = Undefined

\* C5 as amended: Bearer <token> if a non-empty bearer token is present (also
\* when username and password are present); otherwise Basic followed by the
\* base64 text of username:password if username and password are both
\* present and non-empty; otherwise no Authorization header.
C5_HeaderByNonEmptyValue ==
  \A c \in Calls :
    call[c].requests >= 1 =>
      LET o == call[c].options
          h == call[c].authorization
      IN  IF Truthy(o.bearer_token) THEN h = STR_Bearer \o o.bearer_token
          ELSE IF Truthy(o.username) /\ Truthy(o.password)
            THEN /\ h # Undefined
                 /\ StartsWith(h, STR_Basic)
                 /\ Base64Decode(SubSeq(h, Len(STR_Basic) + 1, Len(h)))
                      = o.username \o STR_colon \o o.password
          ELSE h = Undefined

\* a request with username, password and token was sent with the token
C5_Witness ==
  \E c \in Calls :
    /\ call[c].requests >= 1
    /\ call[c].options.username = U_u
    /\ call[c].options.password = P_p
    /\ call[c].options.bearer_token = T_t
    /\ call[c].authorization = STR_Bearer \o T_t

\* ------------------------------------------------------------------------
\* C6
\* ------------------------------------------------------------------------
\* C6: a fetch with a 2xx response fails with a GraphQL-errors failure when
\* the errors field of the body is present and non-empty, and only then; with
\* the errors field absent or an empty list it succeeds, the data is stored in
\* the cache and returned.
C6_FailsOnlyOnNonEmptyErrors ==
  \A c \in Calls :
    (call[c].pc = "done" /\ call[c].parsed) =>
      LET nonEmpty == call[c].errors.kind = "array" /\ call[c].errors.json # STR_empty_array
          failed == /\ IsFailureEnvelope(call[c].response)
                    /\ StartsWith(call[c].response.error,
                                  STR_Failed_to_fetch \o STR_GraphQL_errors)
      IN  /\ failed <=> nonEmpty
          /\ ~nonEmpty => /\ call[c].gotDoc
                          /\ call[c].stored > 0
                          /\ fetchLog[call[c].stored].data = call[c].doc

\* ------------------------------------------------------------------------
\* C7
\* ------------------------------------------------------------------------
\* C7: after a non-2xx response the call fails without reading the body, and
\* the error at the tool boundary contains the numeric status and the status
\* text; after a transport failure the error at the boundary is the uniform
\* fetch failure followed by the original message.
C7_FetchFailuresReported ==
  \A c \in Calls :
    call[c].pc = "done" =>
      /\ ( /\ call[c].settled.kind = "http"
           /\ (call[c].settled.status < 200 \/ call[c].settled.status > 299) )
         => /\ ~call[c].bodyRead
            /\ ~call[c].gotDoc
            /\ IsFailureEnvelope(call[c].response)
            /\ Includes(call[c].response.error, NumberToString(call[c].settled.status))
            /\ Includes(call[c].response.error, call[c].settled.statusText)
      /\ (call[c].settled.kind = "fault" /\ call[c].settled.isError)
         => /\ IsFailureEnvelope(call[c].response)
            /\ call[c].response.error = STR_Failed_to_fetch \o call[c].settled.message

\* a 404 reached the boundary as "...HTTP 404: Not Found"
C7_Witness ==
  \E c \in Calls :
    /\ call[c].pc = "done"
    /\ call[c].settled.kind = "http"
    /\ call[c].settled.status = 404
    /\ ~call[c].bodyRead
    /\ Includes(call[c].response.error, <<52, 48, 52, 58, 32>> \o ST_Not_Found)

C9_Missed(c) == LookedUp(c) /\ ~(call[c].found /\ AgeAtLookup(c) < CACHE_DURATION)

\* two calls with the same cache key that both looked up the cache before
\* either of them had stored its result
C9_Concurrent(c, d) ==
  /\ c # d
  /\ C9_Missed(c) /\ C9_Missed(d)
  /\ call[c].cacheKey = call[d].cacheKey
  /\ call[c].stored = 0 \/ call[d].logLenAtLookup < call[c].stored
  /\ call[d].stored = 0 \/ call[c].logLenAtLookup < call[d].stored

\* C9: two such calls each issue their own request; once both have stored,
\* the entry of the key has the data and the timestamp of the call that
\* stored last (as long as no later fetch replaced it).
C9_BothFetchLastWriterWins ==
  \A c, d \in Calls :
    C9_Concurrent(c, d) =>
      /\ call[c].requests = 1 /\ call[d].requests = 1
      /\ ( /\ call[c].stored > 0 /\ call[d].stored > call[c].stored
           /\ LastStoreFor(call[d].cacheKey, Len(fetchLog)) = call[d].stored )
         => /\ call[d].cacheKey \in DOMAIN cache
            /\ cache[call[d].cacheKey] =
                 [data |-> call[d].doc,
                  timestamp |-> fetchLog[call[d].stored].timestamp]

\* two concurrent calls stored different documents at different times
C9_Witness ==
  \E c, d \in Calls :
    /\ C9_Concurrent(c, d)
    /\ call[c].stored > 0 /\ call[d].stored > call[c].stored
    /\ call[c].doc # call[d].doc
    /\ fetchLog[call[c].stored].timestamp < fetchLog[call[d].stored].timestamp
    /\ cache[call[d].cacheKey].data = call[d].doc

\* ------------------------------------------------------------------------
\* C10
\* ------------------------------------------------------------------------
\* the root reference is absent, or names no declared type, or names a type
\* without a field list
RootUnusable(doc, root) ==
  \/ root = Null \/ root = Undefined
  \/ \A i \in 1..Len(doc.types) : doc.types[i].name # root
  \/ \E i \in 1..Len(doc.types) :
       /\ doc.types[i].name = root
       /\ \A j \in 1..(i - 1) : doc.types[j].name # root
       /\ ~doc.types[i].hasFields

\* C10: filter_queries (filter_mutations) on a document whose query
\* (mutation) root is absent, undeclared or without a field list returns
\* success: true with an empty list and total 0, whatever search and detailed
\* are; it is no error.
C10_MissingRootIsEmptyList ==
  \A c \in Calls :
    (call[c].pc = "done" /\ call[c].gotDoc /\ call[c].doc.hasSchema) =>
      /\ (call[c].name = TOOL_filter_queries
          /\ RootUnusable(call[c].doc, call[c].doc.queryType))
         => /\ IsSuccessPayload(call[c].response)
            /\ call[c].response.queries = <<>>
            /\ call[c].response.total = 0
      /\ (call[c].name = TOOL_filter_mutations
          /\ RootUnusable(call[c].doc, call[c].doc.mutationType))
         => /\ IsSuccessPayload(call[c].response)
            /\ call[c].response.mutations = <<>>
            /\ call[c].response.total = 0

\* filter_queries with a search term and detailed on a document without a
\* query root returned the empty list
C10_Witness ==
  \E c \in Calls :
    /\ call[c].pc = "done"
    /\ call[c].name = TOOL_filter_queries
    /\ call[c].doc = DocMutationOnly
    /\ call[c].options.search = S_use
    /\ call[c].options.detailed
    /\ IsSuccessPayload(call[c].response)
    /\ call[c].response.total = 0

\* ------------------------------------------------------------------------
\* Vocabulary of the claims about searching and listing
\* ------------------------------------------------------------------------
\* the upper-case form of a character
FoldCase(ch) == IF ch >= 97 /\ ch <= 122 THEN ch - 32 ELSE ch

\* the text contains the term at some offset, letters compared without case
ContainsIgnoringCase(text, term) ==
  \E i \in 0..(Len(text) - Len(term)) :
    \A k \in 1..Len(term) : FoldCase(text[i + k]) = FoldCase(term[k])

\* the item has a description text
HasDescription(item) == item.description # Null /\ item.description # Undefined

\* the item matches the term on its name or on its description
TermMatches(item, term) ==
  \/ ContainsIgnoringCase(item.name, term)
  \/ HasDescription(item) /\ ContainsIgnoringCase(item.description, term)

\* the field list of the declared root type
RootFields(doc, root) ==
  doc.types[CHOOSE i \in 1..Len(doc.types) :
              /\ doc.types[i].name = root
              /\ \A j \in 1..(i - 1) : doc.types[j].name # root].fields

\* the names and descriptions of a list of items, in order
Listed(items) == [i \in 1..Len(items) |-> <<items[i].name, items[i].description>>]

\* the call is filter_queries or filter_mutations, has ended and worked on a
\* document whose root type of that operation has a field list
ListedRoot(c) ==
  /\ call[c].pc = "done" /\ call[c].gotDoc /\ call[c].doc.hasSchema
  /\ \/ call[c].name = TOOL_filter_queries
        /\ ~RootUnusable(call[c].doc, call[c].doc.queryType)
     \/ call[c].name = TOOL_filter_mutations
        /\ ~RootUnusable(call[c].doc, call[c].doc.mutationType)

RootOf(c) ==
  IF call[c].name = TOOL_filter_queries THEN call[c].doc.queryType
  ELSE call[c].doc.mutationType

ListOfResponse(c) ==
  IF call[c].name = TOOL_filter_queries THEN call[c].response.queries
  ELSE call[c].response.mutations

\* C11: filter_queries and filter_mutations with a search term return exactly
\* the fields of the root type whose name or description contains the term,
\* letters compared without case, in the order of the root type's field list;
\* a field without description is matched on its name alone; without a search
\* term every field is returned.
C11_ListIsTheMatchingFields ==
  \A c \in Calls :
    ListedRoot(c) =>
      LET fields == RootFields(call[c].doc, RootOf(c))
          term == call[c].options.search
          Wanted(field) == TermMatches(field, term)
      IN  /\ IsSuccessPayload(call[c].response)
          /\ Listed(ListOfResponse(c)) =
               Listed(IF term = Undefined THEN fields ELSE SelectSeq(fields, Wanted))

\* a search returned the one field whose description contains the term and
\* left out the fields whose names do not contain it
C11_Witness ==
  \E c \in Calls :
    /\ ListedRoot(c)
    /\ call[c].name = TOOL_filter_queries
    /\ call[c].doc = DocFull
    /\ call[c].options.search = S_find
    /\ Len(call[c].response.queries) = 1
    /\ call[c].response.queries[1].name = N_user

\* the call is filter_types and has ended on a document with a schema
ListedTypes(c) ==
  /\ call[c].pc = "done" /\ call[c].gotDoc /\ call[c].doc.hasSchema
  /\ call[c].name = TOOL_filter_types

\* the name begins with two underscores
IsInternalName(name) == Len(name) >= 2 /\ name[1] = 95 /\ name[2] = 95

\* C12: filter_types returns exactly the declared types whose name does not
\* begin with '__', whose kind equals the kind argument when one is given, and
\* which match the search term on name or description when one is given: all
\* the conditions given must hold together.
C12_TypesPassEveryFilter ==
  \A c \in Calls :
    ListedTypes(c) =>
      LET kind == call[c].options.kind
          term == call[c].options.search
          Wanted(t) ==
            /\ ~IsInternalName(t.name)
            /\ kind # Undefined => t.kind = kind
            /\ term # Undefined => TermMatches(t, term)
          Entry(t) == <<t.name, t.kind, t.description>>
          wanted == SelectSeq(call[c].doc.types, Wanted)
          got == call[c].response.types
      IN  /\ IsSuccessPayload(call[c].response)
          /\ [i \in 1..Len(got) |-> Entry(got[i])] =
               [i \in 1..Len(wanted) |-> Entry(wanted[i])]

\* a kind and a term were given of which every declared type passes at most
\* one (the scalar passes the kind, the enum matches on its description):
\* nothing was returned
C12_Witness ==
  \E c \in Calls :
    /\ ListedTypes(c)
    /\ call[c].doc = DocFull
    /\ call[c].options.kind = KIND_SCALAR
    /\ call[c].options.search = S_find
    /\ call[c].response.types = <<>>
    /\ call[c].response.total = 0

\* two calls of filter_queries have ended with a list, on the same document
\* and with the same search argument, the first detailed, the second not
DetailedAndPlain(c, d) ==
  /\ call[c].pc = "done" /\ call[d].pc = "done"
  /\ call[c].name = TOOL_filter_queries /\ call[d].name = TOOL_filter_queries
  /\ call[c].gotDoc /\ call[d].gotDoc
  /\ call[c].doc = call[d].doc
  /\ call[c].doc.hasSchema
  /\ call[c].options.search = call[d].options.search
  /\ call[c].options.detailed /\ ~call[d].options.detailed

\* C13: for the same document and the same search argument the detailed and
\* the non-detailed result of filter_queries have the same items in the same
\* order and the same total; each detailed item has the keys of the
\* non-detailed item with the same values, and the two keys arguments and
\* return_type besides.
C13_DetailedOnlyAddsTwoKeys ==
  \A c, d \in Calls :
    DetailedAndPlain(c, d) =>
      LET detailed == call[c].response
          plain == call[d].response
      IN  /\ IsSuccessPayload(detailed) /\ IsSuccessPayload(plain)
          /\ detailed.total = plain.total
          /\ Len(detailed.queries) = Len(plain.queries)
          /\ \A i \in 1..Len(plain.queries) :
               /\ {"arguments", "return_type"} \cap DOMAIN plain.queries[i] = {}
               /\ DOMAIN detailed.queries[i] =
                    DOMAIN plain.queries[i] \cup {"arguments", "return_type"}
               /\ \A k \in DOMAIN plain.queries[i] :
                    detailed.queries[i][k] = plain.queries[i][k]

\* both results list the two query fields of the full document
C13_Witness ==
  \E c, d \in Calls :
    /\ DetailedAndPlain(c, d)
    /\ call[c].doc = DocFull
    /\ call[c].options.search = Undefined
    /\ Len(call[c].response.queries) = 2
    /\ Len(call[d].response.queries) = 2

\* ------------------------------------------------------------------------
\* Vocabulary of the claims about looking up one type or one field
\* ------------------------------------------------------------------------
\* the text has the part at some position
HasPart(text, part) ==
  \E i \in 1..(Len(text) + 1) :
    \A k \in 1..Len(part) : i + k - 1 <= Len(text) /\ text[i + k - 1] = part[k]

WordsNotFound == <<110, 111, 116, 32, 102, 111, 117, 110, 100>>  \* 'not found'

\* some declared type has exactly that name
Declares(doc, name) == \E i \in 1..Len(doc.types) : doc.types[i].name = name

\* the call of that tool has ended on a document with a schema
LookedInto(c, tool) ==
  /\ call[c].pc = "done" /\ call[c].gotDoc /\ call[c].doc.hasSchema
  /\ call[c].name = tool

\* C14: get_type_details succeeds if and only if some declared type has
\* exactly the name type_name (letters compared with case); otherwise the
\* call fails with a not-found error whose message contains the requested
\* name, and the response carries no part of a type payload.
C14_TypeFoundIffDeclared ==
  \A c \in Calls :
    LookedInto(c, TOOL_get_type_details) =>
      LET name == call[c].options.type_name
          r == call[c].response
      IN  IF Declares(call[c].doc, name)
            THEN /\ IsSuccessPayload(r)
                 /\ r.type.name = name
            ELSE /\ IsFailureEnvelope(r)
                 /\ HasPart(r.error, name)
                 /\ HasPart(r.error, WordsNotFound)
                 /\ "type" \notin DOMAIN r

\* the name of a declared type was asked for in lower case and was not found
C14_Witness ==
  \E c \in Calls :
    /\ LookedInto(c, TOOL_get_type_details)
    /\ call[c].doc = DocFull
    /\ call[c].options.type_name = N_int
    /\ IsFailureEnvelope(call[c].response)
    /\ HasPart(call[c].response.error, N_int)

\* the root reference get_field_details is to use: the mutation root when
\* operation_type is 'mutation', the query root when it is 'query' or omitted
ChosenRoot(doc, options) ==
  IF options.operation_type = STR_mutation THEN doc.mutationType ELSE doc.queryType

\* which of the three failures applies to a request, in the order the claim
\* gives them; 0 when none does
FieldCase(doc, options) ==
  LET root == ChosenRoot(doc, options)
  IN  IF root = Null \/ root = Undefined THEN 1
      ELSE IF RootUnusable(doc, root) THEN 2
      ELSE IF \A j \in 1..Len(RootFields(doc, root)) :
                RootFields(doc, root)[j].name # options.field_name THEN 3
      ELSE 0

\* the response to a request of get_field_details on a document
FieldResponse(doc, options) ==
  ToolResponse(Operation(TOOL_get_field_details, doc, DEFAULT_ENDPOINT, options)).response

\* C15: get_field_details fails with one of three errors, in this order:
\* (1) the root reference of the chosen operation is absent, (2) the root type
\* is not declared or has no field list, (3) no field of the root type has
\* exactly the name field_name; with operation_type omitted the query root is
\* used; the call succeeds exactly when none of the three applies; and the
\* error of one case is never the error of a request in another case.
C15_ThreeDistinctFailuresInOrder ==
  \A c \in Calls :
    LookedInto(c, TOOL_get_field_details) =>
      LET case == FieldCase(call[c].doc, call[c].options)
          r == call[c].response
      IN  IF case = 0
            THEN /\ IsSuccessPayload(r)
                 /\ r.field.name = call[c].options.field_name
            ELSE /\ IsFailureEnvelope(r)
                 /\ \A d \in InspectDocuments :
                      \A o \in InspectRequestsOf(TOOL_get_field_details) :
                        FieldCase(d, o) \notin {0, case} => FieldResponse(d, o) # r

\* a mutation field was asked for on a document without mutation root
C15_Witness ==
  \E c \in Calls :
    /\ LookedInto(c, TOOL_get_field_details)
    /\ call[c].doc = DocQueryOnly
    /\ call[c].options.operation_type = STR_mutation
    /\ FieldCase(call[c].doc, call[c].options) = 1
    /\ IsFailureEnvelope(call[c].response)

\* the call of get_field_details has ended with the details of a field
FieldDetailed(c) ==
  /\ LookedInto(c, TOOL_get_field_details)
  /\ ~call[c].returned.threw

\* the type reference of the field the call asked for, as the document has it
ReferenceOf(c) ==
  LET fields == RootFields(call[c].doc, ChosenRoot(call[c].doc, call[c].options))
  IN  fields[CHOOSE j \in 1..Len(fields) : fields[j].name = call[c].options.field_name].type

IsWrapper(node) == node.kind \in {KIND_NON_NULL, KIND_LIST}

\* wrappers nested around a named type
IsNesting(ref) ==
  /\ ref # <<>>
  /\ \A i \in 1..(Len(ref) - 1) : IsWrapper(ref[i])
  /\ ~IsWrapper(ref[Len(ref)])

\* C16: formatting a type reference keeps the nesting: the output has the
\* wrapper kinds of the reference at the same depths, every NON_NULL level
\* marked is_required: true and every LIST level is_list: true, and ends in
\* the terminal {kind, name, description}; a null or absent reference formats
\* to null; the formatting ends on every such reference.
C16_FormattingKeepsNesting ==
  \A c \in Calls :
    FieldDetailed(c) =>
      LET ref == ReferenceOf(c)
          out == call[c].returned.value.field.return_type
      IN  /\ ref = <<>> => out = <<>>
          /\ IsNesting(ref) =>
               /\ Len(out) = Len(ref)
               /\ \A i \in 1..(Len(ref) - 1) :
                    /\ ref[i].kind = KIND_NON_NULL =>
                         out[i] = [kind |-> KIND_NON_NULL, is_required |-> TRUE]
                    /\ ref[i].kind = KIND_LIST =>
                         out[i] = [kind |-> KIND_LIST, is_list |-> TRUE]
               /\ out[Len(ref)] = [kind |-> ref[Len(ref)].kind,
                                   name |-> ref[Len(ref)].name,
                                   description |-> ref[Len(ref)].description]

\* a reference of the greatest depth, a list of non-null values inside further
\* wrappers, was formatted
C16_Witness ==
  \E c \in Calls :
    /\ FieldDetailed(c)
    /\ IsNesting(ReferenceOf(c))
    /\ Len(ReferenceOf(c)) = MaxDepth + 1
    /\ ReferenceOf(c)[1].kind = KIND_LIST
    /\ ReferenceOf(c)[2].kind = KIND_NON_NULL
    /\ Len(call[c].returned.value.field.return_type) = MaxDepth + 1

\* the null reference was formatted
C16_WitnessNull ==
  \E c \in Calls :
    /\ FieldDetailed(c)
    /\ ReferenceOf(c) = <<>>
    /\ call[c].returned.value.field.return_type = <<>>

\* ------------------------------------------------------------------------
\* Vocabulary of the claims about the response envelope
\* ------------------------------------------------------------------------
ListingTools == {TOOL_filter_queries, TOOL_filter_mutations, TOOL_filter_types}

\* the key of the payload list of a listing tool
ListKey(tool) ==
  IF tool = TOOL_filter_queries THEN "queries"
  ELSE IF tool = TOOL_filter_mutations THEN "mutations"
  ELSE "types"

\* the call of a listing tool has ended with a success response
ListingSucceeded(c) ==
  /\ call[c].pc = "done"
  /\ call[c].name \in ListingTools
  /\ IsSuccessPayload(call[c].response)

\* C17: every success response of filter_queries, filter_mutations and
\* filter_types has success: true, the resolved endpoint, the payload list, a
\* total equal to the length of the list, and echoes the search term given in
\* the request under search_term (and the kind given, for filter_types, under
\* kind_filter).
C17_SuccessEnvelopeEchoesFilters ==
  \A c \in Calls :
    ListingSucceeded(c) =>
      LET r == call[c].response
          options == call[c].options
      IN  /\ r.success = TRUE
          /\ "endpoint" \in DOMAIN r /\ r.endpoint = call[c].endpoint
          /\ ListKey(call[c].name) \in DOMAIN r
          /\ "total" \in DOMAIN r /\ r.total = Len(r[ListKey(call[c].name)])
          /\ options.search # Undefined =>
               "search_term" \in DOMAIN r /\ r.search_term = options.search
          /\ (call[c].name = TOOL_filter_types /\ options.kind # Undefined) =>
               "kind_filter" \in DOMAIN r /\ r.kind_filter = options.kind

\* the call has ended with an error response
Failed(c) ==
  /\ call[c].pc = "done"
  /\ "success" \in DOMAIN call[c].response
  /\ call[c].response.success = FALSE

\* C18: every error response returned at the tool boundary has success:
\* false, an error description and the endpoint the call was addressed to.
C18_ErrorEnvelopeNamesEndpoint ==
  \A c \in Calls :
    Failed(c) =>
      /\ "error" \in DOMAIN call[c].response
      /\ "endpoint" \in DOMAIN call[c].response
      /\ LookedUp(c) => call[c].response.endpoint = call[c].endpoint

\* ------------------------------------------------------------------------
\* Vocabulary of the claims about the life of a cache entry
\* ------------------------------------------------------------------------
\* the age of the entry under the key has reached the cache duration
Stale(k) == k \in DOMAIN cache /\ now - cache[k].timestamp >= CACHE_DURATION

\* this step stores a successful fetch for the key
StoresFor(k) ==
  /\ Len(fetchLog') = Len(fetchLog) + 1
  /\ fetchLog'[Len(fetchLog')].cacheKey = k
  /\ cache'[k] = [data |-> fetchLog'[Len(fetchLog')].data,
                  timestamp |-> fetchLog'[Len(fetchLog')].timestamp]

CacheKeys ==
  { getCacheKey(JsNullish(o.endpoint, DEFAULT_ENDPOINT), o) : o \in CacheRequests }

\* the entry stored under the key at that time is in the cache
EntryPresent(k, t) == k \in DOMAIN cache /\ cache[k].timestamp = t

\* C20: expired entries are removed from the cache automatically: once the
\* age of an entry has reached the cache duration, the entry is eventually
\* no longer in the cache.
C20_ExpiredEntriesAreRemoved ==
  \A k \in CacheKeys : \A t \in TimePoints :
    [](EntryPresent(k, t) /\ now - t >= CACHE_DURATION => <>(~EntryPresent(k, t)))

\* ------------------------------------------------------------------------
\* Vocabulary of the claim about the configured cache duration
\* ------------------------------------------------------------------------
RECURSIVE DecimalValue(_)
\* the number a text of decimal digits stands for
DecimalValue(s) ==
  IF s = <<>> THEN 0
  ELSE 10 * DecimalValue(SubSeq(s, 1, Len(s) - 1)) + (s[Len(s)] - 48)

\* the cache duration the documentation promises for the environment:
\* the setting when there is one, 5 minutes otherwise
ConfiguredDuration ==
  IF env.CACHE_DURATION_MS = Undefined THEN 5 * 60 * 1000
  ELSE DecimalValue(env.CACHE_DURATION_MS)

\* C21: the cache duration is read from the environment at startup: with
\* CACHE_DURATION_MS set to D an entry is reused exactly while its age is
\* less than D, and without the setting exactly while it is less than 5
\* minutes.
C21_DurationFollowsEnvironment ==
  \A c \in Calls :
    (LookedUp(c) /\ call[c].found) =>
      (call[c].fromCache <=> AgeAtLookup(c) < ConfiguredDuration)

\* ------------------------------------------------------------------------
\* Vocabulary of the claim about what a step does to the cache
\* ------------------------------------------------------------------------
\* this step ends the call
Ends(c) == call[c].pc # "done" /\ call'[c].pc = "done"

\* this step ends the call with a document it fetched over the network
EndsFetched(c) ==
  /\ call[c].pc = "reading" /\ Ends(c)
  /\ call'[c].gotDoc /\ ~call'[c].fromCache
  /\ ~ErrorsTruthy(call'[c].errors)

\* this step ends the call with a document of the cache
EndsHit(c) == Ends(c) /\ call'[c].gotDoc /\ call'[c].fromCache

\* this step ends the call with a fetch that failed
EndsFetchFailed(c) == Ends(c) /\ call[c].requests > 0 /\ ~call'[c].gotDoc

\* every key but this one has what it had
OthersUnchanged(key) ==
  /\ DOMAIN cache' \ {key} = DOMAIN cache \ {key}
  /\ \A k \in DOMAIN cache \ {key} : cache'[k] = cache[k]

\* C22: only a successful network fetch modifies the cache, and only the
\* entry of its own key: a cache hit leaves the whole cache unchanged (the
\* timestamp is not refreshed), a fetch that fails leaves the whole cache
\* unchanged, a stale entry of its key included, and a successful fetch
\* leaves the entries of all other keys unchanged.
C22_OnlyASuccessfulFetchWrites ==
  [][ /\ cache' # cache =>
           \E c \in Calls : /\ EndsFetched(c)
                            /\ StoresFor(call[c].cacheKey)
                            /\ OthersUnchanged(call[c].cacheKey)
      /\ \A c \in Calls : EndsHit(c) \/ EndsFetchFailed(c) => cache' = cache
      /\ \A c \in Calls : EndsFetched(c) => OthersUnchanged(call[c].cacheKey)
    ]_vars

\* a call was served from the cache some time after the entry was stored and
\* the entry still has the timestamp of its store, beside an entry of
\* another key that a successful fetch has stored
C22_Witness ==
  \E c \in Calls :
    /\ call[c].pc = "done" /\ call[c].fromCache
    /\ call[c].lookupAt > call[c].foundTimestamp
    /\ call[c].cacheKey \in DOMAIN cache
    /\ cache[call[c].cacheKey].timestamp = call[c].foundTimestamp
    /\ \E k \in DOMAIN cache : k # call[c].cacheKey

\* ------------------------------------------------------------------------
\* Vocabulary of the claim about the age of the documents
\* ------------------------------------------------------------------------
\* the successful fetch that had last stored under the key of the call when
\* the call looked into the cache, as a position in fetchLog (0: none)
StoreSeen(c) == LastStoreFor(call[c].cacheKey, call[c].logLenAtLookup)

\* the call works on a document it fetched itself
FetchedItself(c) ==
  /\ ~call[c].fromCache /\ call[c].requests = 1
  /\ call[c].stored > 0 /\ call[c].stored <= Len(fetchLog)
  /\ fetchLog[call[c].stored].data = call[c].doc
  /\ fetchLog[call[c].stored].timestamp >= call[c].lookupAt

\* the call works on the document of a successful fetch that completed less
\* than the cache duration before its lookup
FromAFreshStore(c) ==
  /\ call[c].fromCache /\ call[c].requests = 0
  /\ StoreSeen(c) > 0
  /\ fetchLog[StoreSeen(c)].data = call[c].doc
  /\ call[c].lookupAt - fetchLog[StoreSeen(c)].timestamp < CACHE_DURATION
  /\ call[c].lookupAt >= fetchLog[StoreSeen(c)].timestamp

\* C23: bounded staleness: every document a call works on was either fetched
\* over the network by that same call, or was stored in the cache by a
\* successful fetch that completed less than the cache duration before the
\* call's cache lookup; cache hits never extend the lifetime of an entry
\* (the timestamp of an entry is the time of the fetch that stored it).
C23_BoundedStaleness ==
  /\ \A c \in Calls : call[c].gotDoc => FetchedItself(c) \/ FromAFreshStore(c)
  /\ \A k \in DOMAIN cache :
       /\ LastStoreFor(k, Len(fetchLog)) > 0
       /\ cache[k].timestamp = fetchLog[LastStoreFor(k, Len(fetchLog))].timestamp

\* an entry was used twice, the second time in the last millisecond of its
\* life, and a call that found it one millisecond later fetched again
C23_Witness ==
  \E c, d \in Calls :
    /\ c # d
    /\ call[c].pc = "done" /\ call[c].fromCache
    /\ call[c].lookupAt - fetchLog[StoreSeen(c)].timestamp = CACHE_DURATION - 1
    /\ call[d].cacheKey = call[c].cacheKey
    /\ call[d].found /\ call[d].lookupAt > call[c].lookupAt
    /\ call[d].requests = 1

\* ------------------------------------------------------------------------
\* Vocabulary of the claims about whose documents a call is given
\* ------------------------------------------------------------------------
\* the successful fetch whose document the call was given from the cache
Filler(c) == fetchLog[StoreSeen(c)]

\* the call was served from the cache
Served(c) == call[c].gotDoc /\ call[c].fromCache /\ StoreSeen(c) > 0

\* C24: cache isolation: a call is served from the cache only with a
\* document that was fetched for the same endpoint and the same auth
\* identity (username, else bearer token, else none): calls that differ in
\* endpoint or in auth identity never have the same cache key.
C24_CacheIsolation ==
  \A c \in Calls :
    Served(c) =>
      /\ Filler(c).endpoint = call[c].endpoint
      /\ AuthIdentity(Filler(c)) = AuthIdentity(call[c].options)

\* the Authorization header of the descriptor with its password, when it has
\* one, replaced by a fixed one: the header up to the password
HeaderUpToPassword(a) ==
  AuthorizationHeader([username |-> a.username,
                       password |-> IF Truthy(a.password) THEN P_p ELSE a.password,
                       bearer_token |-> a.bearer_token])

\* C25: the credential that identifies a cache entry is the credential that
\* was sent on the wire when the entry was fetched: whenever a call is served
\* from the cache, the Authorization header its own arguments would produce
\* equals, up to the password, the header of the request that filled the
\* entry (two calls with the same username and different bearer tokens do
\* not share an entry).
C25_KeyCredentialIsWireCredential ==
  \A c \in Calls :
    Served(c) => HeaderUpToPassword(call[c].options) = HeaderUpToPassword(Filler(c))

\* ------------------------------------------------------------------------
\* Vocabulary of the claim about filter_types and get_type_details together
\* ------------------------------------------------------------------------
\* a call of filter_types and a call of get_type_details have ended on the
\* same document
ListedAndLookedUp(c, d) ==
  /\ ListedTypes(c) /\ LookedInto(d, TOOL_get_type_details)
  /\ call[c].doc = call[d].doc

\* the positions of the name in the list the call of filter_types returned
PositionsListed(c, name) ==
  { i \in 1..Len(call[c].response.types) : call[c].response.types[i].name = name }

\* the call of filter_types was given neither a kind nor a search term
Unfiltered(c) == call[c].options.kind = Undefined /\ call[c].options.search = Undefined

\* C26: on the same document every type name listed by filter_types, with
\* any kind or search filter, is found by get_type_details with that exact
\* name, with the same kind and description; the other way round a type
\* get_type_details finds is listed by the unfiltered filter_types unless its
\* name begins with '__', and a type of such a name is found and never listed.
C26_ListedTypesAreFound ==
  \A c, d \in Calls :
    ListedAndLookedUp(c, d) =>
      LET name == call[d].options.type_name
          found == call[d].response
      IN  /\ \A i \in PositionsListed(c, name) :
               /\ IsSuccessPayload(found)
               /\ found.type.name = name
               /\ found.type.kind = call[c].response.types[i].kind
               /\ found.type.description = call[c].response.types[i].description
          /\ IsSuccessPayload(found) /\ Unfiltered(c) /\ PositionsListed(c, name) = {}
               => IsInternalName(name)
          /\ IsInternalName(name) => PositionsListed(c, name) = {}
          /\ IsInternalName(name) /\ Declares(call[c].doc, name) => IsSuccessPayload(found)

\* on the full document the enum was listed under the kind filter ENUM
\* and the search term 'find' and was found with the kind and description
\* listed
C26_Witness ==
  \E c, d \in Calls :
    /\ ListedAndLookedUp(c, d)
    /\ call[c].doc = DocFull
    /\ call[c].options.kind = KIND_ENUM /\ call[c].options.search = S_find
    /\ call[d].options.type_name = N_Role
    /\ PositionsListed(c, N_Role) = {1}
    /\ IsSuccessPayload(call[d].response)
    /\ call[d].response.type.kind = KIND_ENUM
    /\ call[d].response.type.description = D_find_a_USER

\* on the full document '__Type' was found and the unfiltered list does not
\* have it
C26_WitnessInternal ==
  \E c, d \in Calls :
    /\ ListedAndLookedUp(c, d)
    /\ call[c].doc = DocFull /\ Unfiltered(c)
    /\ call[d].options.type_name = N___Type
    /\ IsSuccessPayload(call[d].response)
    /\ PositionsListed(c, N___Type) = {}
    /\ Len(call[c].response.types) = 4

====
